---- MODULE Spec2Model ----
(***************************************************************************)
(* The WebSocket <-> OpenAI-Realtime proxy of apps/ws-server: the          *)
(* connection gateway (handlers/connection.ts, connection-utils.ts,        *)
(* openai-proxy.ts), the message router (handlers/message-handlers.ts),    *)
(* the upstream realtime client (services/openai-realtime.ts) and the      *)
(* session registry (services/session.ts).                                 *)
(*                                                                         *)
(* Execution model: Node's event loop.  A macrotask (an I/O event, a       *)
(* timer) runs to completion, then the microtask queue (promise            *)
(* continuations) is drained in FIFO order before the next macrotask.      *)
(* The one exception is several client frames that arrive in one chunk:    *)
(* the ws library emits their 'message' events back to back, before the    *)
(* continuations of the earlier handlers run.                              *)
(*                                                                         *)
(* The session registry is also driven on its own through its public       *)
(* methods (RegistrySpec), and so are the hooks of apps/web: the           *)
(* conversation hook hooks/useOpenAIMessages.ts (ConversationSpec), the    *)
(* socket hook hooks/useWebSocket.ts (ReconnectSpec, SendSpec with its     *)
(* sendMessage, RejectingServerSpec against a server that closes every     *)
(* socket), the capture hook hooks/useRealTimeAudio.ts (CaptureSpec) and   *)
(* the player hook hooks/useAudioPlayer.ts (PlayerSpec).  EndToEndSpec     *)
(* follows an upstream event through the proxy to the conversation hook.   *)
(***************************************************************************)
EXTENDS Integers, Sequences, FiniteSets, TLC

\* ---------------------------------------------------------------- bounds
NConns == 2          \* client connections the server accepts
LifecycleFrames == 1 \* client frames in the two-connection workload
RouterClients == 1   \* connections in the router workload
MaxFrames == 2       \* client frames in the router workload
MaxPauses == 1       \* idle periods longer than the session timeout
LifecycleEvents == 1 \* upstream events in the two-connection workload
RegistryPeriods == 2 \* session timeouts the registry workload lasts
MaxShortSteps == 2   \* single milliseconds that pass after a whole timeout
MaxSockets == 6      \* WebSocket objects the socket hook creates
SendSockets == 3     \* WebSocket objects in the workload that sends
MaxSends == 2        \* sendMessage calls in the workload that sends
MaxStarts == 2       \* startCapture calls the capture hook's user makes
MaxChunks == 2       \* audio chunks the capture hook passes on
MaxChunkCalls == 3   \* audio chunks the audio player is handed
MaxDownlink == 2     \* frames on their way to the web client at a time
MaxHookInputs == 5   \* calls and events the conversation hook handles
MaxEvents == 2       \* upstream events in the router workload

\* ------------------------------------------------------ program constants
MIN_TOKEN_LENGTH == 10          \* validateToken: token.length < 10
sessionTimeout == 30 * 60 * 1000
CLOSE_POLICY_VIOLATION == 1008
CLOSE_INTERNAL_ERROR == 1011
RECONNECT_ATTEMPTS == 5         \* CONNECTION_CONFIG
RECONNECT_INTERVAL == 2000
MAX_BACKOFF == 30000            \* useWebSocket: Math.min(..., 30000)
CLOSE_NORMAL == 1000
CLOSE_PROTOCOL_ERROR == 1002    \* useWebSocket: permanentErrorCodes
CLOSE_UNSUPPORTED_DATA == 1003
CLOSE_NO_STATUS == 1005
CLOSE_ABNORMAL == 1006

Conns == 1..NConns

\* The clock advances in idle periods longer than the session timeout;
\* shorter passages of time change no comparison the program makes.
LongPause == sessionTimeout + 1

\* A request carries no token (length 0) or a token of some length.
NoToken == 0
TokenLengths == {NoToken, MIN_TOKEN_LENGTH - 1, MIN_TOKEN_LENGTH}

Absent == "<absent>"             \* a field the JSON object does not have
EmptyString == ""                \* a field present with a falsy value
GeneratedId == "event_<now>_<rand>"

NoSession == [status |-> "none", lastActivity |-> 0]
NoContext == [sessionId |-> 0, authenticated |-> FALSE]
\* useWebSocket: the error state and the messages it is set to
NoError == "null"
ERR_CONNECTION == "Connection failed"
ERR_ATTEMPTS == "Connection failed after multiple attempts"
ERR_ESTABLISHING == "Connection is still establishing. Please wait."
ERR_NOT_CONNECTED == "Not connected to server"
NoSend == [n |-> 0, result |-> FALSE]

NoCall == [sid |-> 0, at |-> 0, before |-> NoSession, result |-> NoSession,
           object |-> NoSession]

VARIABLES
  pc,              \* position of each connection in handleConnection/setup
  token,           \* the token of the upgrade request (its length)
  authData,        \* result of validateToken: "none", "invalid", "valid"
  wsState,         \* client socket: "none", "open", "closing", "closed"
  closeCode,       \* code the server passed to ws.close (0: never called)
  wsHandlers,      \* message/close/error handlers registered on the socket
  connectionContexts, \* Map<WebSocket, ConnectionContext>
  sessions,        \* SessionService.sessions, keyed by session id
  now,             \* Date.now(), in ms since the server started
  openaiServices,  \* Map<sessionId, OpenAIRealtimeService>: TRUE if present
  upWs,            \* service.ws: "null", "connecting", "open", "errored", "closed"
  isConnected,     \* service.isConnected
  connectPromise,  \* promise returned by connect(): none/pending/resolved/rejected
  apiKeyOk,        \* whether OPENAI_API_KEY is usable (process environment)
  upSent,          \* events handed to the upstream socket, with their cause
  outbox,          \* frames handed to the open client socket, with their cause
  frames,          \* client frames the message handler has received
  dropped,         \* client frames that arrived with no handler registered
  micro,           \* the microtask queue
  inChunk,         \* connection whose chunk of frames is being emitted, or 0
  created,         \* history: createSession calls per connection
  constructed,     \* history: OpenAIRealtimeService objects constructed
  disconnected,    \* history: handleDisconnection has run
  upRecv,          \* history: upstream events received, with the callbacks run
  workload,        \* the environment: clients, frames, pauses it produces
  got,             \* the last getSession call: its argument, time and result
  messages,        \* useOpenAIMessages: the conversation (React state)
  currentAIResponseRef, \* the assistant message being streamed, id 0: null
  isAIResponding,  \* useOpenAIMessages: the AI-responding flag
  hookLog,         \* history: how many calls and events the hook has
                   \* handled, and the last of them
  downlink,        \* frames the server has sent that the web client's
                   \* socket has not delivered yet
  lastFrame,       \* history: the last frame ws.onmessage has handled
  sockets,         \* useWebSocket: readyState of every WebSocket created
  wsRef,           \* wsRef.current: a socket's number, 0 for null
  reconnectAttemptsRef,
  isManualDisconnectRef,
  timeouts,        \* every setTimeout of onclose: delay, attempt, state
  reconnectTimeoutRef, \* a timeout's number, 0 for null
  connectionStatus,
  error,           \* useWebSocket: the error state, NoError for null
  wsSent,          \* history: frames handed to WebSocket.send, by socket
  sendLog,         \* history: sendMessage calls so far, the last result
  sinceOpen,       \* history: reconnects scheduled since the last open
  audioState,      \* useRealTimeAudio: the capture state (React state)
  audioStateRef,   \* audioStateRef.current, read by onaudioprocess
  hasPermission,   \* "null", "granted" or "denied"
  streams,         \* every MediaStream obtained: "live" or "stopped"
  streamRef,       \* streamRef.current: a stream's number, 0 for null
  contexts,        \* every AudioContext created: running/closing/closed
  audioContextRef, \* audioContextRef.current: a context's number, 0: null
  startCalls,      \* startCapture calls: the await each one is at
  emitted,         \* history: chunks passed to onAudioChunk
  captureLog,      \* history: the last call of the hook's user
  audioQueueRef,   \* useAudioPlayer: the decoded buffers waiting
  sources,         \* every AudioBufferSourceNode: its buffer, its state
  currentSourceRef, \* currentSourceRef.current: a source's number, 0: null
  isPlayingRef,
  playbackState,   \* useAudioPlayer: the playback state (React state)
  renderedPlaybackState, \* the playbackState of the last render, which
                   \* the callbacks made by that render compare
  playerContext,   \* the player's AudioContext: none/suspended/running
  playerTasks,     \* calls waiting at an await, oldest first
  playerLog        \* history: chunks received, the last playNewAudio

\* everything of the gateway but the session registry and the clock
gatewayVars == <<pc, token, authData, wsState, closeCode, wsHandlers,
                 connectionContexts, openaiServices, upWs, isConnected,
                 connectPromise, apiKeyOk, upSent, outbox, frames, dropped,
                 micro, inChunk, created, constructed, disconnected, upRecv,
                 workload>>

\* the server: gateway, router, upstream client and session registry
serverVars == <<gatewayVars, sessions, now, got>>

\* the hooks of the web client
messagesVars == <<messages, currentAIResponseRef, isAIResponding, hookLog,
                  downlink, lastFrame>>

socketVars == <<sockets, wsRef, reconnectAttemptsRef, isManualDisconnectRef,
                timeouts, reconnectTimeoutRef, connectionStatus, error,
                wsSent, sendLog, sinceOpen>>

captureVars == <<audioState, audioStateRef, hasPermission, streams, streamRef,
                 contexts, audioContextRef, startCalls, emitted, captureLog>>

playerVars == <<audioQueueRef, sources, currentSourceRef, isPlayingRef,
                playbackState, renderedPlaybackState, playerContext,
                playerTasks, playerLog>>

audioVars == <<captureVars, playerVars>>

webVars == <<messagesVars, socketVars, audioVars>>

vars == <<serverVars, webVars>>

\* ---------------------------------------------------------------- helpers
Range(s) == {s[i] : i \in 1..Len(s)}

SelectIdx(s, P(_)) == {i \in 1..Len(s) : P(s[i])}

\* JavaScript truthiness of an optional string field
IsFalsy(v) == v = Absent \/ v = EmptyString

\* generateSessionId: a fresh id per call; each connection calls it at most
\* once, so the connection's number serves as the id.
generateSessionId(c) == c

TotalFrames ==
  LET RECURSIVE Sum(_)
      Sum(S) == IF S = {} THEN 0
                ELSE LET x == CHOOSE y \in S : TRUE
                     IN Len(frames[x]) + dropped[x] + Sum(S \ {x})
  IN Sum(Conns)

TotalEvents ==
  LET RECURSIVE Sum(_)
      Sum(S) == IF S = {} THEN 0
                ELSE LET x == CHOOSE y \in S : TRUE
                     IN Len(upRecv[x]) + Sum(S \ {x})
  IN Sum(Conns)

\* ------------------------------------------------------- session registry
createSession(S, sid, t) ==
  [S EXCEPT ![sid] = [status |-> "active", lastActivity |-> t]]

updateActivity(S, sid, t) ==
  IF S[sid] # NoSession THEN [S EXCEPT ![sid].lastActivity = t] ELSE S

endSession(S, sid) ==
  IF S[sid] # NoSession THEN [S EXCEPT ![sid] = NoSession] ELSE S

isSessionExpired(s, t) == (t - s.lastActivity) > sessionTimeout

\* Variant of cleanupExpiredSessions: the sweep ends the first expired
\* session it meets and leaves the others to the next sweep.
cleanupExpiredSessions_FirstOnly(S, t) ==
  LET expiredSessions == {sid \in DOMAIN S :
                            S[sid] # NoSession /\ isSessionExpired(S[sid], t)}
  IN IF expiredSessions = {} THEN S
     ELSE [S EXCEPT ![CHOOSE sid \in expiredSessions :
                        \A other \in expiredSessions : sid <= other] = NoSession]

cleanupExpiredSessions(S, t) ==
  LET expiredSessions == {sid \in DOMAIN S :
                            S[sid] # NoSession /\ isSessionExpired(S[sid], t)}
  IN [sid \in DOMAIN S |-> IF sid \in expiredSessions THEN NoSession ELSE S[sid]]

\* Variant of getSession: the expiry of the session is not looked at.
getSession_NoExpiryCheck(S, sid, t) ==
  LET session == S[sid]
  IN [result |-> session, object |-> session, sessions |-> S]

\* getSession: null (NoSession) for an absent id; an expired session is
\* ended (its status set to 'ended', its entry deleted) and null is
\* returned.  object: the Session object as the call leaves it.
getSession(S, sid, t) ==
  LET session == S[sid]
  IN IF session = NoSession
     THEN [result |-> NoSession, object |-> NoSession, sessions |-> S]
     ELSE IF isSessionExpired(session, t)
     THEN [result |-> NoSession,
           object |-> [session EXCEPT !.status = "ended"],
           sessions |-> endSession(S, sid)]
     ELSE [result |-> session, object |-> session, sessions |-> S]

\* ------------------------------------------------------------ auth service
\* validateToken: null for a token shorter than 10 characters
validateToken(tok) ==
  IF tok = NoToken \/ tok < MIN_TOKEN_LENGTH THEN "invalid" ELSE "valid"

\* ------------------------------------------------------------ wire frames
\* Upstream events and client payloads: JSON objects with optional fields.
Event(ty, id, text, audio) ==
  [type |-> ty, event_id |-> id, text |-> text, audio |-> audio]

NoPayload == Event(Absent, Absent, Absent, Absent)

Frame(valid, ty, hasPayload, payload) ==
  [valid |-> valid, type |-> ty, hasPayload |-> hasPayload, payload |-> payload]

\* Events the upstream service sends, by their type: the protocol's first
\* event, an ordinary event, and the error event.
UpstreamEvents == {"session.created", "response.done", "error"}

KnownTypes == {"ping", "openai_event", "text_message", "audio_data",
               "audio_commit", "audio_clear"}

\* The frames a client may send.
ClientFrames ==
  {Frame(FALSE, Absent, FALSE, NoPayload)} \cup
  {Frame(TRUE, ty, FALSE, NoPayload) :
     ty \in {"ping", "audio_commit", "audio_clear", "subscribe",
             "openai_event", "text_message"}} \cup
  {Frame(TRUE, "openai_event", TRUE, Event("response.create", id, Absent, Absent)) :
     id \in {Absent, EmptyString, "evt_client"}} \cup
  {Frame(TRUE, "text_message", TRUE, Event(Absent, Absent, "hi", Absent)),
   Frame(TRUE, "audio_data", TRUE, Event(Absent, Absent, Absent, "AAAA"))}

\* Frames the server hands to the client socket.  cause: the number of the
\* client frame whose handling sent it, 0 for the setup and upstream events.
ServerFrame(ty, msg, sid, auth, cause) ==
  [type |-> ty, message |-> msg, sessionId |-> sid, authenticated |-> auth,
   cause |-> cause]

ErrorFrame(c, msg, cause) == ServerFrame("error", msg, c, FALSE, cause)

\* ws.send on the client socket: a frame handed to a socket that is no
\* longer open is discarded.
WsSend(box, state, fr) == IF state = "open" THEN Append(box, fr) ELSE box

\* ---------------------------------------------------- upstream realtime client
\* sendEvent's guard: throws unless isConnected and ws is set.
CanSend(c) == isConnected[c] /\ upWs[c] # "null"

\* sendEvent: add event_id if not present, then ws.send
AssignEventId(ev) ==
  IF IsFalsy(ev.event_id) THEN [ev EXCEPT !.event_id = GeneratedId] ELSE ev

Sent(cause, ev) == [cause |-> cause, ev |-> AssignEventId(ev)]

SessionUpdateEvent == Event("session.update", Absent, Absent, Absent)
ItemCreateEvent(text) == Event("conversation.item.create", Absent, text, Absent)
ResponseCreateEvent == Event("response.create", Absent, Absent, Absent)
AudioAppendEvent(audio) == Event("input_audio_buffer.append", Absent, Absent, audio)
AudioCommitEvent == Event("input_audio_buffer.commit", Absent, Absent, Absent)
AudioClearEvent == Event("input_audio_buffer.clear", Absent, Absent, Absent)

Microtask(k, c, i) == [k |-> k, c |-> c, i |-> i]

\* The synchronous part of one service call made by the router for frame i:
\* the first sendEvent either throws (the rejection reaches the caller's
\* catch block in a later microtask) or sends; `more` is the continuation
\* that follows the first await.
Call(c, i, ev, catchKind, more) ==
  IF CanSend(c)
  THEN [out |-> <<>>, up |-> <<Sent(i, ev)>>, mic |-> more]
  ELSE [out |-> <<>>, up |-> <<>>, mic |-> <<Microtask(catchKind, c, i)>>]

Nothing == [out |-> <<>>, up |-> <<>>, mic |-> <<>>]

\* Variant of sendTextMessage: the item is created and no response is
\* requested.
sendTextMessage_NoResponse(c, i, text) ==
  Call(c, i, ItemCreateEvent(text), "legacyCatch", <<>>)

\* sendTextMessage: conversation.item.create, then (after the await)
\* createResponse.
sendTextMessage(c, i, text) ==
  Call(c, i, ItemCreateEvent(text), "legacyCatch",
       <<Microtask("createResponse", c, i)>>)

\* sendAudioData: one input_audio_buffer.append for a non-empty chunk.
sendAudioData(c, i, audio) ==
  Call(c, i, AudioAppendEvent(audio), "legacyCatch", <<>>)

\* Variant of commitAudioBuffer: the buffer is committed and no response
\* is requested.
commitAudioBuffer_NoResponse(c, i) ==
  Call(c, i, AudioCommitEvent, "legacyCatch", <<>>)

\* commitAudioBuffer: input_audio_buffer.commit, then createResponse.
commitAudioBuffer(c, i) ==
  Call(c, i, AudioCommitEvent, "legacyCatch",
       <<Microtask("createResponse", c, i)>>)

clearAudioBuffer(c, i) ==
  Call(c, i, AudioClearEvent, "legacyCatch", <<>>)

\* --------------------------------------------------------- message router
\* Variant of handleLegacyMessage: an unknown type is ignored silently.
handleLegacyMessage_SilentDefault(c, f, i) ==
  CASE f.type = "text_message" ->
         IF f.hasPayload /\ ~IsFalsy(f.payload.text)
         THEN sendTextMessage(c, i, f.payload.text) ELSE Nothing
    [] f.type = "audio_data" ->
         IF f.hasPayload /\ ~IsFalsy(f.payload.audio)
         THEN sendAudioData(c, i, f.payload.audio) ELSE Nothing
    [] f.type = "audio_commit" -> commitAudioBuffer(c, i)
    [] f.type = "audio_clear" -> clearAudioBuffer(c, i)
    [] OTHER -> Nothing

handleLegacyMessage(c, f, i) ==
  CASE f.type = "text_message" ->
         IF f.hasPayload /\ ~IsFalsy(f.payload.text)
         THEN sendTextMessage(c, i, f.payload.text) ELSE Nothing
    [] f.type = "audio_data" ->
         IF f.hasPayload /\ ~IsFalsy(f.payload.audio)
         THEN sendAudioData(c, i, f.payload.audio) ELSE Nothing
    [] f.type = "audio_commit" -> commitAudioBuffer(c, i)
    [] f.type = "audio_clear" -> clearAudioBuffer(c, i)
    [] OTHER ->
         [out |-> <<ErrorFrame(c, "Unknown message type: " \o f.type, i)>>,
          up |-> <<>>, mic |-> <<>>]

\* Variant of routeMessage: a ping is answered and also passed on to the
\* upstream service as a response request.
routeMessage_PingForwarded(c, f, i) ==
  IF f.type = "ping"
  THEN [out |-> <<ServerFrame("pong", Absent, c, FALSE, i)>>,
        up |-> Call(c, i, ResponseCreateEvent, "messageCatch", <<>>).up,
        mic |-> <<>>]
  ELSE IF f.type = "openai_event" /\ f.hasPayload
  THEN Call(c, i, f.payload, "messageCatch", <<>>)
  ELSE handleLegacyMessage(c, f, i)

\* handleMessage after JSON.parse succeeded: ping, the proxy envelope, or
\* the legacy types.
routeMessage(c, f, i) ==
  IF f.type = "ping"
  THEN [out |-> <<ServerFrame("pong", Absent, c, FALSE, i)>>,
        up |-> <<>>, mic |-> <<>>]
  ELSE IF f.type = "openai_event" /\ f.hasPayload
  THEN Call(c, i, f.payload, "messageCatch", <<>>)
  ELSE handleLegacyMessage(c, f, i)

\* Variant of handleMessage: a frame that does not parse is reported as a
\* processing failure of the proxy path.
handleMessage_ParseErrorMisreported(c, f, i) ==
  IF ~f.valid
  THEN [out |-> <<ErrorFrame(c, "Failed to process message", i)>>,
        up |-> <<>>, mic |-> <<>>, touch |-> FALSE]
  ELSE LET r == routeMessage(c, f, i)
       IN [out |-> r.out, up |-> r.up, mic |-> r.mic, touch |-> TRUE]

\* The synchronous part of handleMessage for the i-th frame of connection
\* c, whose session id is c.  touch: updateActivity was called.
handleMessage(c, f, i) ==
  IF ~f.valid
  THEN [out |-> <<ErrorFrame(c, "Invalid message format", i)>>,
        up |-> <<>>, mic |-> <<>>, touch |-> FALSE]
  ELSE LET r == routeMessage(c, f, i)
       IN [out |-> r.out, up |-> r.up, mic |-> r.mic, touch |-> TRUE]

\* ----------------------------------------------- web client: conversation
\* useOpenAIMessages.  A message's id is its place in the list; trail is
\* the history of the statuses it was given, the last one being current.
NoResponse == [id |-> 0, content |-> EmptyString]

\* Events the server relays, with the fields the hook reads.
HookEvent(ty, role, delta, text) ==
  [type |-> ty, role |-> role, delta |-> delta, text |-> text]

NoHookEvent == HookEvent(Absent, Absent, Absent, Absent)

\* no frame has arrived yet
NoFrame == [type |-> Absent, message |-> NoHookEvent]

InitMessages ==
  /\ messages = <<>>
  /\ currentAIResponseRef = NoResponse
  /\ isAIResponding = FALSE
  /\ hookLog = [n |-> 0, call |-> Absent, ev |-> NoHookEvent]
  /\ downlink = <<>>
  /\ lastFrame = NoFrame

addMessage(ms, sender, status, content) ==
  Append(ms, [sender |-> sender, status |-> status, content |-> content,
              trail |-> <<status>>])

\* updateMessage(id, {status}) and updateMessage(id, {content, status})
updateStatus(ms, id, status) ==
  [k \in 1..Len(ms) |->
     IF k = id THEN [ms[k] EXCEPT !.status = status,
                                  !.trail = Append(@, status)]
     ELSE ms[k]]

updateMessage(ms, id, content, status) ==
  [k \in 1..Len(ms) |->
     IF k = id THEN [ms[k] EXCEPT !.content = content, !.status = status,
                                  !.trail = Append(@, status)]
     ELSE ms[k]]

\* Texts a user submits: empty, blank, ordinary, longer than 1000 characters.
LongText == "<1001 characters>"
UserTexts == {EmptyString, " ", "hi", LongText}
Trim(t) == IF t = " " THEN EmptyString ELSE t
TextLength(t) == IF t = LongText THEN 1001 ELSE IF t = "hi" THEN 2
                 ELSE IF t = " " THEN 1 ELSE 0

\* the hook's state as one value
HookState(ms, cur, responding) ==
  [messages |-> ms, current |-> cur, responding |-> responding]

\* sendTextMessage: the two results of sendWebSocketMessage are inputs.
hookSendTextMessage(st, text, conversationSent, responseSent) ==
  IF Trim(text) = EmptyString \/ TextLength(text) > 1000 THEN st
  ELSE LET id == Len(st.messages) + 1
           added == addMessage(st.messages, "user", "sending", Trim(text))
       IN IF conversationSent
          THEN IF responseSent
               THEN HookState(updateStatus(added, id, "sent"), st.current, TRUE)
               ELSE HookState(updateStatus(updateStatus(added, id, "sent"),
                                           id, "error"),
                              st.current, st.responding)
          ELSE HookState(updateStatus(added, id, "error"), st.current,
                         st.responding)

HookEvents ==
  {HookEvent(ty, Absent, Absent, Absent) :
     ty \in {"response.created", "response.done", "error",
             "rate_limits.updated"}} \cup
  {HookEvent("response.output_item.added", role, Absent, Absent) :
     role \in {"assistant", Absent}} \cup
  {HookEvent(ty, Absent, d, Absent) :
     ty \in {"response.text.delta", "response.audio_transcript.delta"},
     d \in {"x", EmptyString}} \cup
  {HookEvent(ty, Absent, Absent, t) :
     ty \in {"response.text.done", "response.audio_transcript.done"},
     t \in {"T", EmptyString}}

IsDelta(ev) ==
  ev.type \in {"response.text.delta", "response.audio_transcript.delta"}

IsDone(ev) ==
  ev.type \in {"response.text.done", "response.audio_transcript.done"}

\* Variant of onResponseDone: the current response is not forgotten.
onResponseDone_KeepsCurrent(st) ==
  IF st.current.id # 0
  THEN HookState(updateStatus(st.messages, st.current.id, "completed"),
                 st.current, FALSE)
  ELSE HookState(st.messages, st.current, FALSE)

\* case 'response.done'
onResponseDone(st) ==
  IF st.current.id # 0
  THEN HookState(updateStatus(st.messages, st.current.id, "completed"),
                 NoResponse, FALSE)
  ELSE HookState(st.messages, st.current, FALSE)

\* handleOpenAIEvent: the switch on event.type (text and transcript done
\* events carry their final text in .text and .transcript, here .text).
handleOpenAIEvent(st, ev) ==
  CASE ev.type = "response.created" ->
         HookState(st.messages, st.current, TRUE)
    [] ev.type = "response.output_item.added" ->
         IF ev.role = "assistant"
         THEN HookState(addMessage(st.messages, "ai", "receiving", EmptyString),
                        [id |-> Len(st.messages) + 1, content |-> EmptyString],
                        st.responding)
         ELSE st
    [] IsDelta(ev) ->
         IF st.current.id # 0 /\ ~IsFalsy(ev.delta)
         THEN LET content == st.current.content \o ev.delta
              IN HookState(updateMessage(st.messages, st.current.id, content,
                                         "receiving"),
                           [st.current EXCEPT !.content = content],
                           st.responding)
         ELSE st
    [] IsDone(ev) ->
         IF st.current.id # 0 /\ ~IsFalsy(ev.text)
         THEN HookState(updateMessage(st.messages, st.current.id, ev.text,
                                      "completed"),
                        st.current, st.responding)
         ELSE st
    [] ev.type = "response.done" -> onResponseDone(st)
    [] ev.type = "error" ->
         IF st.current.id # 0
         THEN HookState(updateMessage(st.messages, st.current.id,
                          IF st.current.content # EmptyString
                          THEN st.current.content
                          ELSE "Error generating response", "error"),
                        NoResponse, FALSE)
         ELSE HookState(st.messages, st.current, FALSE)
    [] OTHER -> st

\* --------------------------------------------------- web client: socket
\* useWebSocket.
InitSocket ==
  /\ sockets = <<>>
  /\ wsRef = 0
  /\ reconnectAttemptsRef = 0
  /\ isManualDisconnectRef = FALSE
  /\ timeouts = <<>>
  /\ reconnectTimeoutRef = 0
  /\ connectionStatus = "disconnected"
  /\ error = NoError
  /\ wsSent = <<>>
  /\ sendLog = NoSend
  /\ sinceOpen = 0

RECURSIVE Pow(_, _)
Pow(b, n) == IF n = 0 THEN 1 ELSE b * Pow(b, n - 1)

Min(a, b) == IF a < b THEN a ELSE b

\* Variant of backoffDelay: the delay is not capped.
backoffDelay_Uncapped(attempts) ==
  RECONNECT_INTERVAL * Pow(2, attempts - 1)

\* onclose: the delay before reconnect attempt number `attempts`
backoffDelay(attempts) ==
  Min(RECONNECT_INTERVAL * Pow(2, attempts - 1), MAX_BACKOFF)

permanentErrorCodes == {CLOSE_PROTOCOL_ERROR, CLOSE_UNSUPPORTED_DATA,
                        CLOSE_NO_STATUS}

\* the codes a close event carries
CloseCodes == {CLOSE_NORMAL, CLOSE_UNSUPPORTED_DATA, CLOSE_NO_STATUS,
               CLOSE_ABNORMAL, CLOSE_POLICY_VIOLATION}

\* WebSocket.close(): a socket that is connecting or open starts closing
CloseSocket(S, k) ==
  IF k # 0 /\ S[k] \in {"connecting", "open"}
  THEN [S EXCEPT ![k] = "closing"] ELSE S

\* clearReconnectTimeout
clearReconnectTimeout(T, ref) ==
  IF ref # 0 /\ T[ref].state = "pending"
  THEN [T EXCEPT ![ref].state = "cleared"] ELSE T

\* The refs and the React state of the hook and the frames it has handed
\* to its sockets, as one value.
SocketHookState(S, ref, attempts, manual, T, tref, status, err, sent) ==
  [sockets |-> S, wsRef |-> ref, reconnectAttemptsRef |-> attempts,
   isManualDisconnectRef |-> manual, timeouts |-> T,
   reconnectTimeoutRef |-> tref, connectionStatus |-> status,
   error |-> err, wsSent |-> sent]

\* wsRef.current?.readyState === WebSocket.OPEN
IsOpen(h) == h.wsRef # 0 /\ h.sockets[h.wsRef] = "open"

\* connect(): nothing if the current socket is open; otherwise the current
\* socket is closed and a new one is created.  (new WebSocket throws only
\* for a malformed URL, and the URL is a constant.)
connect(h) ==
  IF IsOpen(h) THEN h
  ELSE [h EXCEPT !.sockets = Append(CloseSocket(h.sockets, h.wsRef),
                                    "connecting"),
                 !.wsRef = Len(h.sockets) + 1,
                 !.connectionStatus = "connecting",
                 !.error = NoError,
                 !.isManualDisconnectRef = FALSE]

\* ws.onopen of socket k
onopen(h, k) ==
  [h EXCEPT !.sockets[k] = "open",
            !.connectionStatus = "connected",
            !.error = NoError,
            !.reconnectAttemptsRef = 0,
            !.timeouts = clearReconnectTimeout(h.timeouts,
                                               h.reconnectTimeoutRef),
            !.reconnectTimeoutRef = 0]

\* Variant of shouldReconnect: the attempt counter is not compared with
\* the maximum.
shouldReconnect_NoBudget(h, code) ==
  /\ ~h.isManualDisconnectRef
  /\ code \notin permanentErrorCodes

\* shouldReconnect of onclose
shouldReconnect(h, code) ==
  /\ ~h.isManualDisconnectRef
  /\ h.reconnectAttemptsRef < RECONNECT_ATTEMPTS
  /\ code \notin permanentErrorCodes

\* ws.onclose of socket k with the close code of the event.  The two
\* setConnectionStatus calls of one handler are batched into the last.
onclose(h, k, code) ==
  LET g == [h EXCEPT !.sockets[k] = "closed", !.wsRef = 0]
  IN IF shouldReconnect(h, code)
     THEN [g EXCEPT !.connectionStatus = "reconnecting",
                    !.reconnectAttemptsRef = h.reconnectAttemptsRef + 1,
                    !.timeouts = Append(h.timeouts,
                       [delay |-> backoffDelay(h.reconnectAttemptsRef + 1),
                        attempt |-> h.reconnectAttemptsRef + 1,
                        state |-> "pending"]),
                    !.reconnectTimeoutRef = Len(h.timeouts) + 1]
     ELSE [g EXCEPT !.connectionStatus = "disconnected",
                    !.error = IF h.reconnectAttemptsRef >= RECONNECT_ATTEMPTS
                              THEN ERR_ATTEMPTS ELSE h.error]

\* ws.onerror of socket k
onerror(h, k) ==
  [h EXCEPT !.connectionStatus = "error", !.error = ERR_CONNECTION]

\* disconnect(): the call it makes to WebSocket.close, as the socket and
\* the code; socket 0 when it makes none
disconnectCloses(h) ==
  IF h.wsRef # 0 THEN [socket |-> h.wsRef, code |-> CLOSE_NORMAL]
  ELSE [socket |-> 0, code |-> 0]

\* disconnect()
disconnect(h) ==
  [h EXCEPT !.isManualDisconnectRef = TRUE,
            !.timeouts = clearReconnectTimeout(h.timeouts,
                                               h.reconnectTimeoutRef),
            !.reconnectTimeoutRef = 0,
            !.sockets = CloseSocket(h.sockets, h.wsRef),
            !.wsRef = 0,
            !.connectionStatus = "disconnected",
            !.error = NoError]

\* sendMessage(message): its return value
sendMessageReturns(h) == IsOpen(h)

\* sendMessage(message): the frame goes to the current socket if that is
\* open (send does not throw on an open socket); otherwise an error is set.
sendMessage(h, frame) ==
  IF IsOpen(h)
  THEN [h EXCEPT !.wsSent = Append(h.wsSent,
                                   [socket |-> h.wsRef, frame |-> frame])]
  ELSE [h EXCEPT !.error =
          IF h.wsRef # 0 /\ h.sockets[h.wsRef] = "connecting"
          THEN ERR_ESTABLISHING ELSE ERR_NOT_CONNECTED]

\* ----------------------------------------- the upstream client's disconnect
NoUpstreamId == "null"
UpstreamId == "sess_upstream"

\* ws, isConnected and sessionId of an OpenAIRealtimeService
ServiceState(ws, connected, id) ==
  [ws |-> ws, isConnected |-> connected, sessionId |-> id]

\* The states of a service: isConnected is set by 'open' and cleared by
\* 'close' and disconnect(), an error leaves it as it is; sessionId is set
\* by a session.created event of the connected socket and cleared by
\* 'close' and disconnect().
ServiceStates ==
  {s \in [ws : {"null", "connecting", "open", "errored", "closed"},
          isConnected : BOOLEAN, sessionId : {NoUpstreamId, UpstreamId}] :
     /\ s.isConnected => s.ws \in {"open", "errored"}
     /\ s.ws = "open" => s.isConnected
     /\ s.sessionId # NoUpstreamId => s.isConnected}

\* OpenAIRealtimeService.disconnect(): whether it calls ws.close()
serviceDisconnectCloses(s) == s.ws # "null"

\* OpenAIRealtimeService.disconnect()
serviceDisconnect(s) ==
  IF s.ws # "null" THEN ServiceState("null", FALSE, NoUpstreamId) ELSE s

\* ------------------------------------------------- the audio capture hook
InitCapture ==
  /\ audioState = "idle"
  /\ audioStateRef = "idle"
  /\ hasPermission = "null"
  /\ streams = <<>>
  /\ streamRef = 0
  /\ contexts = <<>>
  /\ audioContextRef = 0
  /\ startCalls = <<>>
  /\ emitted = <<>>
  /\ captureLog = "none"

\* The React state and the refs of useRealTimeAudio, the media streams and
\* audio contexts it has created, the startCapture calls in flight and the
\* chunks it has passed to onAudioChunk, as one value.
CaptureState(state, ref, permission, S, sref, C, cref, calls, out) ==
  [audioState |-> state, audioStateRef |-> ref, hasPermission |-> permission,
   streams |-> S, streamRef |-> sref, contexts |-> C,
   audioContextRef |-> cref, startCalls |-> calls, emitted |-> out]

\* cleanup(): the tracks of the stream are stopped, the context is closed
\* (close() is asynchronous: the context is closing until its promise
\* resolves), the refs are reset.
cleanup(h) ==
  [h EXCEPT !.streams = IF h.streamRef # 0
                        THEN [@ EXCEPT ![h.streamRef] = "stopped"] ELSE @,
            !.streamRef = 0,
            !.contexts = IF h.audioContextRef # 0
                         THEN [@ EXCEPT ![h.audioContextRef] = "closing"]
                         ELSE @,
            !.audioContextRef = 0]

\* startCapture() up to its first await: of getUserMedia in
\* requestPermission when permission is not known to be granted, of
\* getUserMedia in startCapture otherwise.
startCapture(h) ==
  IF h.audioState = "capturing" THEN h
  ELSE IF h.hasPermission # "granted"
  THEN [h EXCEPT !.audioState = "requesting_permission",
                 !.startCalls = Append(@, "permission")]
  ELSE [h EXCEPT !.audioState = "capturing",
                 !.startCalls = Append(@, "stream")]

\* requestPermission after its getUserMedia settled, and startCapture up to
\* its own getUserMedia.  The test stream is stopped at once.
permissionSettled(h, i, granted) ==
  IF granted
  THEN [h EXCEPT !.hasPermission = "granted",
                 !.streams = Append(@, "stopped"),
                 !.audioState = "capturing",
                 !.startCalls[i] = "stream"]
  ELSE [h EXCEPT !.hasPermission = "denied",
                 !.audioState = "error",
                 !.startCalls[i] = "done"]

\* startCapture after its getUserMedia settled: the stream is stored and
\* setupAudioProcessing creates the context and the processor.
streamSettled(h, i, ok) ==
  IF ok
  THEN [h EXCEPT !.streams = Append(@, "live"),
                 !.streamRef = Len(h.streams) + 1,
                 !.contexts = Append(@, "running"),
                 !.audioContextRef = Len(h.contexts) + 1,
                 !.startCalls[i] = "done"]
  ELSE [h EXCEPT !.audioState = "error", !.startCalls[i] = "done"]

\* stopCapture()
stopCapture(h) ==
  IF h.audioState # "capturing" THEN h
  ELSE [cleanup(h) EXCEPT !.audioState = "idle"]

\* the effect that copies audioState to audioStateRef after a render
syncAudioStateRef(h) == [h EXCEPT !.audioStateRef = h.audioState]

\* onaudioprocess of the processor of context k: the chunk goes to
\* onAudioChunk if audioStateRef.current is 'capturing'.  The history keeps
\* the audioState at that moment.
onaudioprocess(h, k) ==
  IF h.audioStateRef # "capturing" THEN h
  ELSE [h EXCEPT !.emitted = Append(@, [context |-> k,
                                        state |-> h.audioState])]

\* --------------------------------------------------- the audio player hook
NoBuffer == 0   \* what shift() returns on an empty queue: undefined

InitPlayer ==
  /\ audioQueueRef = <<>>
  /\ sources = <<>>
  /\ currentSourceRef = 0
  /\ isPlayingRef = FALSE
  /\ playbackState = "idle"
  /\ renderedPlaybackState = "idle"
  /\ playerContext = "none"
  /\ playerTasks = <<>>
  /\ playerLog = [chunks |-> 0, lastNew |-> 0]

\* The refs and the React state of useAudioPlayer, the buffer sources it has
\* policy, its audio context and the calls waiting at an await, as one
\* value.  Decoded buffers are numbered in the order of the calls that
\* brought them.
PlayerState(queue, S, current, playing, state, rendered, context, tasks, log) ==
  [audioQueueRef |-> queue, sources |-> S, currentSourceRef |-> current,
   isPlayingRef |-> playing, playbackState |-> state,
   renderedPlaybackState |-> rendered, playerContext |-> context,
   playerTasks |-> tasks, playerLog |-> log]

\* stop(): stop() on the current source makes its ended event fire later.
stop(h) ==
  [h EXCEPT !.sources = IF h.currentSourceRef # 0
                        THEN [@ EXCEPT ![h.currentSourceRef].state = "stopping"]
                        ELSE @,
            !.currentSourceRef = 0,
            !.audioQueueRef = <<>>,
            !.isPlayingRef = FALSE,
            !.playbackState = "idle"]

\* playNextInQueue() up to its await of initializeAudioContext()
playNextInQueue(h) ==
  IF h.audioQueueRef = <<>>
  THEN [h EXCEPT !.playbackState = "idle", !.isPlayingRef = FALSE]
  ELSE [h EXCEPT !.playerTasks = Append(@, [at |-> "play", buffer |-> NoBuffer,
                                            seen |-> h.playbackState])]

\* playNextInQueue() after its await: the head of the queue becomes the
\* buffer of a new source, which is started.  With an empty queue the buffer
\* is undefined and reading its duration throws: the catch sets 'error'.
startSource(h) ==
  LET buffer == IF h.audioQueueRef = <<>> THEN NoBuffer
                ELSE Head(h.audioQueueRef)
      g == [h EXCEPT !.audioQueueRef = IF @ = <<>> THEN @ ELSE Tail(@),
                     !.sources = Append(@, [buffer |-> buffer,
                                            state |-> "playing"]),
                     !.currentSourceRef = Len(h.sources) + 1]
  IN IF buffer = NoBuffer
     THEN [g EXCEPT !.isPlayingRef = TRUE, !.playbackState = "error"]
     ELSE IF ~h.isPlayingRef
     THEN [g EXCEPT !.isPlayingRef = TRUE, !.playbackState = "playing"]
     ELSE g

\* queueAudioChunk(audioData) up to its await of decodeAudioData(); the
\* playbackState it will compare is the one of the render that made the
\* callback.  initializeAudioContext creates the context on the first call,
\* suspended or running as the browser's autoplay policy decides.
queueAudioChunk(h, data, policy) ==
  IF data = EmptyString THEN h
  ELSE [h EXCEPT !.playerContext = IF @ = "none" THEN policy ELSE @,
                 !.playerLog.chunks = @ + 1,
                 !.playerTasks = Append(@, [at |-> "decode",
                                            buffer |-> h.playerLog.chunks + 1,
                                            seen |-> h.renderedPlaybackState])]

\* queueAudioChunk after its await: the buffer is pushed and, with autoPlay,
\* playback starts if nothing is playing.
pushBuffer(h, task) ==
  LET g == [h EXCEPT !.audioQueueRef = Append(@, task.buffer)]
  IN IF ~h.isPlayingRef /\ task.seen # "playing"
     THEN playNextInQueue(g) ELSE g

\* the continuation at the head of the waiting calls runs
resumeTask(h) ==
  LET task == Head(h.playerTasks)
      g == [h EXCEPT !.playerTasks = Tail(@)]
  IN IF task.at = "decode" THEN pushBuffer(g, task) ELSE startSource(g)

\* playNewAudio(audioData)
playNewAudio(h, data, policy) ==
  [queueAudioChunk(stop(h), data, policy)
     EXCEPT !.playerLog.lastNew = h.playerLog.chunks + 1]

\* source.onended of source k
onended(h, k) ==
  playNextInQueue([h EXCEPT !.sources[k].state = "ended",
                            !.currentSourceRef = 0])

\* ------------------------------------------------------------------- Init
InitState ==
  /\ pc = [c \in Conns |-> "new"]
  /\ token = [c \in Conns |-> NoToken]
  /\ authData = [c \in Conns |-> "none"]
  /\ wsState = [c \in Conns |-> "none"]
  /\ closeCode = [c \in Conns |-> 0]
  /\ wsHandlers = [c \in Conns |-> FALSE]
  /\ connectionContexts = [c \in Conns |-> NoContext]
  /\ sessions = [c \in Conns |-> NoSession]
  /\ now = 0
  /\ openaiServices = [c \in Conns |-> FALSE]
  /\ upWs = [c \in Conns |-> "null"]
  /\ isConnected = [c \in Conns |-> FALSE]
  /\ connectPromise = [c \in Conns |-> "none"]
  /\ apiKeyOk \in BOOLEAN
  /\ upSent = [c \in Conns |-> <<>>]
  /\ outbox = [c \in Conns |-> <<>>]
  /\ frames = [c \in Conns |-> <<>>]
  /\ dropped = [c \in Conns |-> 0]
  /\ micro = <<>>
  /\ inChunk = 0
  /\ created = [c \in Conns |-> 0]
  /\ constructed = [c \in Conns |-> 0]
  /\ disconnected = [c \in Conns |-> FALSE]
  /\ upRecv = [c \in Conns |-> <<>>]
  /\ got = NoCall
  /\ InitMessages
  /\ InitSocket
  /\ InitCapture
  /\ InitPlayer

\* Two clients, few frames: the connection life cycle under interleaving.
Init ==
  /\ InitState
  /\ workload = [clients |-> NConns, frames |-> LifecycleFrames,
                 pauses |-> MaxPauses, events |-> LifecycleEvents,
                 sockets |-> 0, sends |-> 0]

\* One client, more frames: the message router.
InitRouter ==
  /\ InitState
  /\ workload = [clients |-> RouterClients, frames |-> MaxFrames,
                 pauses |-> MaxPauses, events |-> MaxEvents,
                 sockets |-> 0, sends |-> 0]

\* A macrotask starts only when the microtask queue is empty.
Idle == micro = <<>>

\* The microtask at the head of the queue is the one that runs.
Running(k, c) == micro # <<>> /\ Head(micro).k = k /\ Head(micro).c = c

\* ------------------------------------------------------ connection gateway
\* Variant of DeleteService: the map entry is left behind.
DeleteService_Skipped(S, sid) == S

\* handleDisconnection: openaiServices.delete(context.sessionId)
DeleteService(S, sid) == [S EXCEPT ![sid] = FALSE]

\* Variant of HandleConnection: a request without a token is validated
\* like any other and no demo session is created for it.
HandleConnection_TokenRequired(c, tok) ==
  /\ Idle
  /\ pc[c] = "new"
  /\ c <= workload.clients
  /\ \A d \in Conns : d < c => pc[d] # "new"
  /\ wsState' = [wsState EXCEPT ![c] = "open"]
  /\ token' = [token EXCEPT ![c] = tok]
  /\ pc' = [pc EXCEPT ![c] = "validating"]
  /\ micro' = Append(micro, Microtask("validated", c, 0))
  /\ UNCHANGED <<sessions, created, connectionContexts>>
  /\ UNCHANGED <<authData, closeCode, wsHandlers, now, openaiServices, upWs,
                 isConnected, connectPromise, apiKeyOk, upSent, outbox,
                 frames, dropped, inChunk, constructed, disconnected, upRecv, workload, got, webVars>>

\* wss.on('connection'): handleConnection up to the first await of
\* authenticateConnection.  Without a token the demo session is created at
\* once; with a token validateToken is awaited.
HandleConnection(c, tok) ==
  /\ Idle
  /\ pc[c] = "new"
  /\ c <= workload.clients
  /\ \A d \in Conns : d < c => pc[d] # "new"
  /\ wsState' = [wsState EXCEPT ![c] = "open"]
  /\ token' = [token EXCEPT ![c] = tok]
  /\ IF tok = NoToken
     THEN /\ sessions' = createSession(sessions, generateSessionId(c), now)
          /\ created' = [created EXCEPT ![c] = @ + 1]
          /\ connectionContexts' = [connectionContexts EXCEPT ![c] =
               [sessionId |-> generateSessionId(c), authenticated |-> FALSE]]
          /\ pc' = [pc EXCEPT ![c] = "authenticated"]
          /\ micro' = Append(micro, Microtask("authThen", c, 0))
     ELSE /\ pc' = [pc EXCEPT ![c] = "validating"]
          /\ micro' = Append(micro, Microtask("validated", c, 0))
          /\ UNCHANGED <<sessions, created, connectionContexts>>
  /\ UNCHANGED <<authData, closeCode, wsHandlers, now, openaiServices, upWs,
                 isConnected, connectPromise, apiKeyOk, upSent, outbox,
                 frames, dropped, inChunk, constructed, disconnected, upRecv, workload, got, webVars>>

\* Variant of AuthValidated: the session is created before the result of
\* the validation is looked at.
AuthValidated_SessionFirst(c) ==
  /\ Running("validated", c)
  /\ pc[c] = "validating"
  /\ authData' = [authData EXCEPT ![c] = validateToken(token[c])]
  /\ sessions' = createSession(sessions, generateSessionId(c), now)
  /\ created' = [created EXCEPT ![c] = @ + 1]
  /\ IF validateToken(token[c]) = "invalid"
     THEN /\ pc' = [pc EXCEPT ![c] = "unauthenticated"]
          /\ UNCHANGED connectionContexts
     ELSE /\ connectionContexts' = [connectionContexts EXCEPT ![c] =
               [sessionId |-> generateSessionId(c), authenticated |-> TRUE]]
          /\ pc' = [pc EXCEPT ![c] = "authenticated"]
  /\ micro' = Append(Tail(micro), Microtask("authThen", c, 0))
  /\ UNCHANGED <<token, wsState, closeCode, wsHandlers, now, openaiServices,
                 upWs, isConnected, connectPromise, apiKeyOk, upSent, outbox,
                 frames, dropped, inChunk, constructed, disconnected, upRecv, workload, got, webVars>>

\* authenticateConnection after `await authService.validateToken(token)`.
AuthValidated(c) ==
  /\ Running("validated", c)
  /\ pc[c] = "validating"
  /\ authData' = [authData EXCEPT ![c] = validateToken(token[c])]
  /\ IF validateToken(token[c]) = "invalid"
     THEN /\ pc' = [pc EXCEPT ![c] = "unauthenticated"]
          /\ UNCHANGED <<sessions, created, connectionContexts>>
     ELSE /\ sessions' = createSession(sessions, generateSessionId(c), now)
          /\ created' = [created EXCEPT ![c] = @ + 1]
          /\ connectionContexts' = [connectionContexts EXCEPT ![c] =
               [sessionId |-> generateSessionId(c), authenticated |-> TRUE]]
          /\ pc' = [pc EXCEPT ![c] = "authenticated"]
  /\ micro' = Append(Tail(micro), Microtask("authThen", c, 0))
  /\ UNCHANGED <<token, wsState, closeCode, wsHandlers, now, openaiServices,
                 upWs, isConnected, connectPromise, apiKeyOk, upSent, outbox,
                 frames, dropped, inChunk, constructed, disconnected, upRecv, workload, got, webVars>>

\* handleConnection's .then callback with a null context.
RejectConnection(c) ==
  /\ Running("authThen", c)
  /\ pc[c] = "unauthenticated"
  /\ pc' = [pc EXCEPT ![c] = "rejected"]
  /\ wsState' = [wsState EXCEPT ![c] = IF @ = "open" THEN "closing" ELSE @]
  /\ closeCode' = [closeCode EXCEPT ![c] =
                     IF wsState[c] = "open" THEN CLOSE_POLICY_VIOLATION ELSE @]
  /\ micro' = Tail(micro)
  /\ UNCHANGED <<token, authData, wsHandlers, connectionContexts, sessions,
                 now, openaiServices, upWs, isConnected, connectPromise,
                 apiKeyOk, upSent, outbox, frames, dropped, inChunk, created,
                 constructed, disconnected, upRecv, workload, got, webVars>>

\* Variant of SetupAuthenticatedConnection: the socket handlers are
\* registered before connect() is awaited.
SetupAuthenticatedConnection_HandlersFirst(c) ==
  /\ Running("authThen", c)
  /\ pc[c] = "authenticated"
  /\ constructed' = [constructed EXCEPT ![c] = @ + 1]
  /\ openaiServices' =
       [openaiServices EXCEPT ![connectionContexts[c].sessionId] = TRUE]
  /\ wsHandlers' = [wsHandlers EXCEPT ![c] = TRUE]
  /\ pc' = [pc EXCEPT ![c] = "connecting"]
  /\ IF apiKeyOk
     THEN /\ upWs' = [upWs EXCEPT ![c] = "connecting"]
          /\ connectPromise' = [connectPromise EXCEPT ![c] = "pending"]
          /\ micro' = Tail(micro)
     ELSE /\ connectPromise' = [connectPromise EXCEPT ![c] = "rejected"]
          /\ micro' = Append(Tail(micro), Microtask("setupCatch", c, 0))
          /\ UNCHANGED upWs
  /\ UNCHANGED <<token, authData, wsState, closeCode,
                 connectionContexts, sessions, now, isConnected, apiKeyOk,
                 upSent, outbox, frames, dropped, inChunk, created,
                 disconnected, upRecv, workload, got, webVars>>

\* setupAuthenticatedConnection up to `await openaiService.connect()`:
\* the service is constructed and stored, and connect() runs until it
\* throws (no usable API key) or returns its pending promise.
SetupAuthenticatedConnection(c) ==
  /\ Running("authThen", c)
  /\ pc[c] = "authenticated"
  /\ constructed' = [constructed EXCEPT ![c] = @ + 1]
  /\ openaiServices' =
       [openaiServices EXCEPT ![connectionContexts[c].sessionId] = TRUE]
  /\ pc' = [pc EXCEPT ![c] = "connecting"]
  /\ IF apiKeyOk
     THEN /\ upWs' = [upWs EXCEPT ![c] = "connecting"]
          /\ connectPromise' = [connectPromise EXCEPT ![c] = "pending"]
          /\ micro' = Tail(micro)
     ELSE /\ connectPromise' = [connectPromise EXCEPT ![c] = "rejected"]
          /\ micro' = Append(Tail(micro), Microtask("setupCatch", c, 0))
          /\ UNCHANGED upWs
  /\ UNCHANGED <<token, authData, wsState, closeCode, wsHandlers,
                 connectionContexts, sessions, now, isConnected, apiKeyOk,
                 upSent, outbox, frames, dropped, inChunk, created,
                 disconnected, upRecv, workload, got, webVars>>

\* setupAuthenticatedConnection after connect() resolved: register the
\* handlers, send the welcome frame.
SetupResume(c) ==
  /\ Running("setupResume", c)
  /\ wsHandlers' = [wsHandlers EXCEPT ![c] = TRUE]
  /\ outbox' = [outbox EXCEPT ![c] =
       WsSend(@, wsState[c],
              ServerFrame("welcome", "Connected to Smriti AI Guidance",
                          connectionContexts[c].sessionId,
                          connectionContexts[c].authenticated, 0))]
  /\ pc' = [pc EXCEPT ![c] = "established"]
  /\ micro' = Tail(micro)
  /\ UNCHANGED <<token, authData, wsState, closeCode, connectionContexts,
                 sessions, now, openaiServices, upWs, isConnected,
                 connectPromise, apiKeyOk, upSent, frames, dropped, inChunk,
                 created, constructed, disconnected, upRecv, workload, got, webVars>>

\* setupAuthenticatedConnection's catch block.
SetupCatch(c) ==
  /\ Running("setupCatch", c)
  /\ outbox' = [outbox EXCEPT ![c] =
       WsSend(@, wsState[c],
              ErrorFrame(connectionContexts[c].sessionId,
                         "Failed to initialize AI service", 0))]
  /\ wsState' = [wsState EXCEPT ![c] = IF @ = "open" THEN "closing" ELSE @]
  /\ closeCode' = [closeCode EXCEPT ![c] =
                     IF wsState[c] = "open" THEN CLOSE_INTERNAL_ERROR ELSE @]
  /\ pc' = [pc EXCEPT ![c] = "failed"]
  /\ micro' = Tail(micro)
  /\ UNCHANGED <<token, authData, wsHandlers, connectionContexts, sessions,
                 now, openaiServices, upWs, isConnected, connectPromise,
                 apiKeyOk, upSent, frames, dropped, inChunk, created,
                 constructed, disconnected, upRecv, workload, got, webVars>>

\* ------------------------------------------------- upstream socket events
\* ws.once('open') of connect(): isConnected, then initializeSession sends
\* session.update; its .then resolves the promise in a microtask.
UpstreamOpen(c) ==
  /\ Idle
  /\ upWs[c] = "connecting"
  /\ upWs' = [upWs EXCEPT ![c] = "open"]
  /\ isConnected' = [isConnected EXCEPT ![c] = TRUE]
  /\ upSent' = [upSent EXCEPT ![c] = Append(@, Sent(0, SessionUpdateEvent))]
  /\ micro' = Append(micro, Microtask("initThen", c, 0))
  /\ UNCHANGED <<pc, token, authData, wsState, closeCode, wsHandlers,
                 connectionContexts, sessions, now, openaiServices,
                 connectPromise, apiKeyOk, outbox, frames, dropped, inChunk,
                 created, constructed, disconnected, upRecv, workload, got, webVars>>

\* initializeSession().then(() => resolve()): settles the promise if it is
\* still pending and schedules the continuation of the awaiting setup.
InitThen(c) ==
  /\ Running("initThen", c)
  /\ IF connectPromise[c] = "pending"
     THEN /\ connectPromise' = [connectPromise EXCEPT ![c] = "resolved"]
          /\ micro' = Append(Tail(micro), Microtask("setupResume", c, 0))
     ELSE /\ micro' = Tail(micro)
          /\ UNCHANGED connectPromise
  /\ UNCHANGED <<pc, token, authData, wsState, closeCode, wsHandlers,
                 connectionContexts, sessions, now, openaiServices, upWs,
                 isConnected, apiKeyOk, upSent, outbox, frames, dropped,
                 inChunk, created, constructed, disconnected, upRecv, workload, got, webVars>>

\* The CONNECTION_TIMEOUT_MS timer of connect(): rejects; the upstream
\* socket is left as it is.
ConnectTimeout(c) ==
  /\ Idle
  /\ upWs[c] = "connecting"
  /\ connectPromise[c] = "pending"
  /\ connectPromise' = [connectPromise EXCEPT ![c] = "rejected"]
  /\ micro' = Append(micro, Microtask("setupCatch", c, 0))
  /\ UNCHANGED <<pc, token, authData, wsState, closeCode, wsHandlers,
                 connectionContexts, sessions, now, openaiServices, upWs,
                 isConnected, apiKeyOk, upSent, outbox, frames, dropped,
                 inChunk, created, constructed, disconnected, upRecv, workload, got, webVars>>

\* 'error' on the upstream socket: the handler of setupWebSocketHandlers
\* calls onOpenAIError (an openai_error frame to the client), then the
\* once('error') handler of connect() rejects the promise if still pending.
UpstreamError(c) ==
  /\ Idle
  /\ upWs[c] \in {"connecting", "open"}
  /\ upWs' = [upWs EXCEPT ![c] = "errored"]
  /\ outbox' = [outbox EXCEPT ![c] =
       WsSend(@, wsState[c],
              ServerFrame("openai_error", "transport error",
                          connectionContexts[c].sessionId, FALSE, 0))]
  /\ IF connectPromise[c] = "pending"
     THEN /\ connectPromise' = [connectPromise EXCEPT ![c] = "rejected"]
          /\ micro' = Append(micro, Microtask("setupCatch", c, 0))
     ELSE UNCHANGED <<connectPromise, micro>>
  /\ UNCHANGED <<pc, token, authData, wsState, closeCode, wsHandlers,
                 connectionContexts, sessions, now, openaiServices,
                 isConnected, apiKeyOk, upSent, frames, dropped, inChunk,
                 created, constructed, disconnected, upRecv, workload, got, webVars>>

\* 'close' on the upstream socket (after an error, or closed by the peer).
UpstreamClose(c) ==
  /\ Idle
  /\ upWs[c] \in {"open", "errored"}
  /\ upWs' = [upWs EXCEPT ![c] = "closed"]
  /\ isConnected' = [isConnected EXCEPT ![c] = FALSE]
  /\ UNCHANGED <<pc, token, authData, wsState, closeCode, wsHandlers,
                 connectionContexts, sessions, now, openaiServices,
                 connectPromise, apiKeyOk, upSent, outbox, frames, dropped,
                 micro, inChunk, created, constructed, disconnected, upRecv, workload, got, webVars>>

\* Variant of handleServerEvent: the error branch does not return, so an
\* error event also reaches the event callback.
handleServerEvent_ErrorFallsThrough(ev) ==
  IF ev = "error" THEN <<"onOpenAIError", "onOpenAIEvent">>
  ELSE <<"onOpenAIEvent">>

\* handleServerEvent: the callbacks an upstream event is handed to.
handleServerEvent(ev) ==
  IF ev = "error" THEN <<"onOpenAIError">> ELSE <<"onOpenAIEvent">>

\* createOpenAIProxy: the frame a callback passes to ws.send.
ProxyFrame(cb, ev, sid) ==
  ServerFrame(IF cb = "onOpenAIEvent" THEN "openai_event" ELSE "openai_error",
              ev, sid, FALSE, 0)

\* 'message' on the upstream socket: the event is parsed and handed to
\* handleServerEvent; each callback wraps it in one frame for the client.
UpstreamMessage(c, ev) ==
  /\ Idle
  /\ upWs[c] = "open"
  /\ TotalEvents < workload.events
  /\ LET cbs == handleServerEvent(ev)
         sid == connectionContexts[c].sessionId
         sent == [k \in 1..Len(cbs) |-> ProxyFrame(cbs[k], ev, sid)]
     IN /\ upRecv' = [upRecv EXCEPT ![c] =
               Append(@, [ev |-> ev, to |-> cbs, sent |-> sent,
                          delivered |-> wsState[c] = "open"])]
        /\ outbox' = [outbox EXCEPT ![c] =
               IF wsState[c] = "open" THEN @ \o sent ELSE @]
  /\ UNCHANGED <<pc, token, authData, wsState, closeCode, wsHandlers,
                 connectionContexts, sessions, now, openaiServices, upWs,
                 isConnected, connectPromise, apiKeyOk, upSent, frames,
                 dropped, micro, inChunk, created, constructed, disconnected,
                 workload, got, webVars>>

\* --------------------------------------------------- client socket events
\* 'message' on the client socket.  With no handler registered the frame
\* is lost; otherwise handleMessage runs up to its first await.
ClientFrame(c, f) ==
  /\ Idle \/ inChunk = c
  /\ wsState[c] = "open"
  /\ TotalFrames < workload.frames
  /\ IF ~wsHandlers[c]
     THEN /\ dropped' = [dropped EXCEPT ![c] = @ + 1]
          /\ UNCHANGED <<frames, sessions, outbox, upSent, micro, inChunk>>
     ELSE LET i == Len(frames[c]) + 1
              r == handleMessage(c, f, i)
          IN /\ frames' = [frames EXCEPT ![c] = Append(@, f)]
             /\ sessions' = IF r.touch
                            THEN updateActivity(sessions,
                                   connectionContexts[c].sessionId, now)
                            ELSE sessions
             /\ outbox' = [outbox EXCEPT ![c] = @ \o r.out]
             /\ upSent' = [upSent EXCEPT ![c] = @ \o r.up]
             /\ micro' = micro \o r.mic
             /\ inChunk' = IF micro' # <<>> THEN c ELSE 0
             /\ UNCHANGED dropped
  /\ UNCHANGED <<pc, token, authData, wsState, closeCode, wsHandlers,
                 connectionContexts, now, openaiServices, upWs, isConnected,
                 connectPromise, apiKeyOk, created, constructed, disconnected, upRecv, workload, got, webVars>>

\* sendTextMessage / commitAudioBuffer after their first await:
\* createResponse sends response.create, or throws into the legacy catch.
CreateResponse(c) ==
  /\ Running("createResponse", c)
  /\ LET r == Call(c, Head(micro).i, ResponseCreateEvent, "legacyCatch", <<>>)
     IN /\ upSent' = [upSent EXCEPT ![c] = @ \o r.up]
        /\ micro' = Tail(micro) \o r.mic
  /\ inChunk' = 0
  /\ UNCHANGED <<pc, token, authData, wsState, closeCode, wsHandlers,
                 connectionContexts, sessions, now, openaiServices, upWs,
                 isConnected, connectPromise, apiKeyOk, outbox, frames,
                 dropped, created, constructed, disconnected, upRecv, workload, got, webVars>>

\* handleMessage's catch block, reached by a rejected sendEvent.
MessageCatch(c) ==
  /\ Running("messageCatch", c)
  /\ outbox' = [outbox EXCEPT ![c] =
       WsSend(@, wsState[c],
              ErrorFrame(connectionContexts[c].sessionId,
                         "Invalid message format", Head(micro).i))]
  /\ micro' = Tail(micro)
  /\ inChunk' = 0
  /\ UNCHANGED <<pc, token, authData, wsState, closeCode, wsHandlers,
                 connectionContexts, sessions, now, openaiServices, upWs,
                 isConnected, connectPromise, apiKeyOk, upSent, frames,
                 dropped, created, constructed, disconnected, upRecv, workload, got, webVars>>

\* handleLegacyMessage's catch block.
LegacyCatch(c) ==
  /\ Running("legacyCatch", c)
  /\ outbox' = [outbox EXCEPT ![c] =
       WsSend(@, wsState[c],
              ErrorFrame(connectionContexts[c].sessionId,
                         "Failed to process " \o frames[c][Head(micro).i].type,
                         Head(micro).i))]
  /\ micro' = Tail(micro)
  /\ inChunk' = 0
  /\ UNCHANGED <<pc, token, authData, wsState, closeCode, wsHandlers,
                 connectionContexts, sessions, now, openaiServices, upWs,
                 isConnected, connectPromise, apiKeyOk, upSent, frames,
                 dropped, created, constructed, disconnected, upRecv, workload, got, webVars>>

\* 'close' on the client socket: the client went away, or the closing
\* handshake the server started has finished.  handleDisconnection runs
\* only if the close handler is registered.
ClientClose(c) ==
  /\ Idle
  /\ wsState[c] \in {"open", "closing"}
  /\ wsState' = [wsState EXCEPT ![c] = "closed"]
  /\ IF wsHandlers[c]
     THEN LET sid == connectionContexts[c].sessionId
          IN /\ upWs' = IF openaiServices[sid]
                        THEN [upWs EXCEPT ![sid] = "null"] ELSE upWs
             /\ isConnected' = IF openaiServices[sid] /\ upWs[sid] # "null"
                               THEN [isConnected EXCEPT ![sid] = FALSE]
                               ELSE isConnected
             /\ openaiServices' = DeleteService(openaiServices, sid)
             /\ sessions' = endSession(sessions, sid)
             /\ connectionContexts' = [connectionContexts EXCEPT ![c] = NoContext]
             /\ disconnected' = [disconnected EXCEPT ![c] = TRUE]
     ELSE UNCHANGED <<upWs, isConnected, openaiServices, sessions,
                      connectionContexts, disconnected>>
  /\ UNCHANGED <<pc, token, authData, closeCode, wsHandlers, now,
                 connectPromise, apiKeyOk, upSent, outbox, frames, dropped,
                 micro, inChunk, created, constructed, upRecv, workload, got, webVars>>

\* ------------------------------------------------------------------ time
Tick ==
  /\ Idle
  /\ now < workload.pauses * LongPause
  /\ now' = now + LongPause
  /\ UNCHANGED <<pc, token, authData, wsState, closeCode, wsHandlers,
                 connectionContexts, sessions, openaiServices, upWs,
                 isConnected, connectPromise, apiKeyOk, upSent, outbox,
                 frames, dropped, micro, inChunk, created, constructed,
                 disconnected, upRecv, workload, got, webVars>>

\* The setInterval callback of SessionService.
Sweep ==
  /\ Idle
  /\ sessions' = cleanupExpiredSessions(sessions, now)
  /\ UNCHANGED <<pc, token, authData, wsState, closeCode, wsHandlers,
                 connectionContexts, now, openaiServices, upWs, isConnected,
                 connectPromise, apiKeyOk, upSent, outbox, frames, dropped,
                 micro, inChunk, created, constructed, disconnected, upRecv, workload, got, webVars>>

\* ------------------------------------------------------------------- Next
Next ==
  \/ \E c \in Conns, tok \in TokenLengths : HandleConnection(c, tok)
  \/ \E c \in Conns : AuthValidated(c)
  \/ \E c \in Conns : RejectConnection(c)
  \/ \E c \in Conns : SetupAuthenticatedConnection(c)
  \/ \E c \in Conns : SetupResume(c)
  \/ \E c \in Conns : SetupCatch(c)
  \/ \E c \in Conns : UpstreamOpen(c)
  \/ \E c \in Conns : InitThen(c)
  \/ \E c \in Conns : ConnectTimeout(c)
  \/ \E c \in Conns : UpstreamError(c)
  \/ \E c \in Conns : UpstreamClose(c)
  \/ \E c \in Conns, ev \in UpstreamEvents : UpstreamMessage(c, ev)
  \/ \E c \in Conns, f \in ClientFrames : ClientFrame(c, f)
  \/ \E c \in Conns : CreateResponse(c)
  \/ \E c \in Conns : MessageCatch(c)
  \/ \E c \in Conns : LegacyCatch(c)
  \/ \E c \in Conns : ClientClose(c)
  \/ Tick
  \/ Sweep

Spec == Init /\ [][Next]_vars

RouterSpec == InitRouter /\ [][Next]_vars

\* ------------------------------------------------- the session registry alone
\* SessionService driven through its public methods by an arbitrary caller.
InitRegistry ==
  /\ InitState
  /\ workload = [clients |-> 0, frames |-> 0, pauses |-> 0, events |-> 0,
                 sockets |-> 0, sends |-> 0]

CreateSession(sid) ==
  /\ sessions[sid] = NoSession
  /\ sessions' = createSession(sessions, sid, now)
  /\ UNCHANGED <<gatewayVars, now, got, webVars>>

UpdateActivity(sid) ==
  /\ sessions' = updateActivity(sessions, sid, now)
  /\ UNCHANGED <<gatewayVars, now, got, webVars>>

EndSession(sid) ==
  /\ sessions' = endSession(sessions, sid)
  /\ UNCHANGED <<gatewayVars, now, got, webVars>>

GetSession(sid) ==
  /\ LET r == getSession(sessions, sid, now)
     IN /\ sessions' = r.sessions
        /\ got' = [sid |-> sid, at |-> now, before |-> sessions[sid],
                   result |-> r.result, object |-> r.object]
  /\ UNCHANGED <<gatewayVars, now, webVars>>

\* Time passes: a whole timeout, or one millisecond shortly after one.
Elapse(d) ==
  /\ d = 1 => (now % sessionTimeout) < MaxShortSteps
  /\ d = sessionTimeout => now < RegistryPeriods * sessionTimeout
  /\ now' = now + d
  /\ UNCHANGED <<gatewayVars, sessions, got, webVars>>

RegistryNext ==
  \/ \E sid \in Conns : CreateSession(sid)
  \/ \E sid \in Conns : UpdateActivity(sid)
  \/ \E sid \in Conns : EndSession(sid)
  \/ \E sid \in Conns : GetSession(sid)
  \/ \E d \in {1, sessionTimeout} : Elapse(d)
  \/ Sweep

RegistrySpec == InitRegistry /\ [][RegistryNext]_vars

\* ------------------------------------------- the conversation hook alone
\* useOpenAIMessages driven by its user and by the events the socket
\* hook hands it.
InitConversation ==
  /\ InitState
  /\ workload = [clients |-> 0, frames |-> 0, pauses |-> 0, events |-> 0,
                 sockets |-> 0, sends |-> 0]

Hook == HookState(messages, currentAIResponseRef, isAIResponding)

HookBecomes(st, call, ev) ==
  /\ messages' = st.messages
  /\ currentAIResponseRef' = st.current
  /\ isAIResponding' = st.responding
  /\ hookLog' = [n |-> hookLog.n + 1, call |-> call, ev |-> ev]
  /\ UNCHANGED <<serverVars, socketVars, audioVars, downlink, lastFrame>>

SendTextMessage(text, conversationSent, responseSent) ==
  /\ hookLog.n < MaxHookInputs
  /\ HookBecomes(hookSendTextMessage(Hook, text, conversationSent, responseSent),
                 "sendTextMessage", HookEvent(Absent, Absent, Absent, text))

HandleOpenAIEvent(ev) ==
  /\ hookLog.n < MaxHookInputs
  /\ HookBecomes(handleOpenAIEvent(Hook, ev), "handleOpenAIEvent", ev)

ClearMessages ==
  /\ hookLog.n < MaxHookInputs
  /\ HookBecomes(HookState(<<>>, NoResponse, FALSE), "clearMessages",
                 NoHookEvent)

ConversationNext ==
  \/ \E text \in UserTexts, conversationSent, responseSent \in BOOLEAN :
       SendTextMessage(text, conversationSent, responseSent)
  \/ \E ev \in HookEvents : HandleOpenAIEvent(ev)
  \/ ClearMessages

ConversationSpec == InitConversation /\ [][ConversationNext]_vars

\* --------------------------------------------------- the socket hook alone
\* useWebSocket driven by its user, by the browser's socket events and by
\* its own reconnect timer.
InitReconnect ==
  /\ InitState
  /\ workload = [clients |-> 0, frames |-> 0, pauses |-> 0, events |-> 0,
                 sockets |-> MaxSockets, sends |-> 0]

SocketHook ==
  SocketHookState(sockets, wsRef, reconnectAttemptsRef, isManualDisconnectRef,
                  timeouts, reconnectTimeoutRef, connectionStatus, error,
                  wsSent)

\* the hook's state becomes h; the history of reconnects scheduled since
\* the last open follows the timers and the socket that opens
SocketBecomes(h) ==
  /\ sockets' = h.sockets
  /\ wsRef' = h.wsRef
  /\ reconnectAttemptsRef' = h.reconnectAttemptsRef
  /\ isManualDisconnectRef' = h.isManualDisconnectRef
  /\ timeouts' = h.timeouts
  /\ reconnectTimeoutRef' = h.reconnectTimeoutRef
  /\ connectionStatus' = h.connectionStatus
  /\ error' = h.error
  /\ wsSent' = h.wsSent
  /\ sinceOpen' =
       IF \E k \in 1..Len(sockets) : sockets[k] # "open" /\ h.sockets[k] = "open"
       THEN 0
       ELSE sinceOpen + (Len(h.timeouts) - Len(timeouts))
  /\ UNCHANGED <<serverVars, messagesVars, audioVars>>

\* connect() creates a socket unless the current one is open
MayConnect(h) == IsOpen(h) \/ Len(h.sockets) < workload.sockets

\* connect() called on mount or by the user
Connect ==
  /\ MayConnect(SocketHook)
  /\ SocketBecomes(connect(SocketHook))
  /\ UNCHANGED sendLog

\* the reconnect timer fires and calls connect()
ReconnectTimerFires(k) ==
  /\ k \in 1..Len(timeouts)
  /\ timeouts[k].state = "pending"
  /\ MayConnect(SocketHook)
  /\ SocketBecomes(connect([SocketHook EXCEPT !.timeouts[k].state = "fired"]))
  /\ UNCHANGED sendLog

\* ws.onopen
SocketOpen(k) ==
  /\ k \in 1..Len(sockets)
  /\ sockets[k] = "connecting"
  /\ SocketBecomes(onopen(SocketHook, k))
  /\ UNCHANGED sendLog

\* ws.onclose with the close code of the event
SocketClose(k, code) ==
  /\ k \in 1..Len(sockets)
  /\ sockets[k] # "closed"
  /\ SocketBecomes(onclose(SocketHook, k, code))
  /\ UNCHANGED sendLog

\* ws.onerror
SocketError(k) ==
  /\ k \in 1..Len(sockets)
  /\ sockets[k] \in {"connecting", "open"}
  /\ SocketBecomes(onerror(SocketHook, k))
  /\ UNCHANGED sendLog

\* disconnect() called by the user
Disconnect ==
  /\ SocketBecomes(disconnect(SocketHook))
  /\ UNCHANGED sendLog

ReconnectNext ==
  \/ Connect
  \/ \E k \in 1..MaxSockets : ReconnectTimerFires(k)
  \/ \E k \in 1..MaxSockets : SocketOpen(k)
  \/ \E k \in 1..MaxSockets, code \in CloseCodes : SocketClose(k, code)
  \/ \E k \in 1..MaxSockets : SocketError(k)
  \/ Disconnect

ReconnectSpec == InitReconnect /\ [][ReconnectNext]_vars

\* ------------------------------------ the socket hook and a server that closes
\* The hook connects on mount (autoConnect) and is then left to its
\* reconnect timer, against a server that closes every connection: before
\* the handshake completes (1006) or after it, when authentication or the
\* setup of the upstream service fails (1008, and 1011, which the hook
\* treats as it treats 1006).
Mount ==
  /\ sockets = <<>>
  /\ Connect

ServerCloses(k, code) ==
  /\ k \in 1..Len(sockets)
  /\ sockets[k] \in {"connecting", "open"}
  /\ code = CLOSE_POLICY_VIOLATION => sockets[k] = "open"
  /\ SocketClose(k, code)

RejectingServerNext ==
  \/ Mount
  \/ \E k \in 1..MaxSockets : ReconnectTimerFires(k)
  \/ \E k \in 1..MaxSockets : SocketOpen(k)
  \/ \E k \in 1..MaxSockets,
        code \in {CLOSE_ABNORMAL, CLOSE_POLICY_VIOLATION} : ServerCloses(k, code)
  \/ \E k \in 1..MaxSockets : SocketError(k)

RejectingServerSpec == InitReconnect /\ [][RejectingServerNext]_vars

\* ------------------------------------------- the socket hook and its user
\* The same hook with fewer sockets and a user who also sends frames.
InitSend ==
  /\ InitState
  /\ workload = [clients |-> 0, frames |-> 0, pauses |-> 0, events |-> 0,
                 sockets |-> SendSockets, sends |-> MaxSends]

\* sendMessage(message) called by the user; the frame is numbered by the
\* call
SendMessage ==
  /\ sendLog.n < workload.sends
  /\ SocketBecomes(sendMessage(SocketHook, sendLog.n + 1))
  /\ sendLog' = [n |-> sendLog.n + 1,
                 result |-> sendMessageReturns(SocketHook)]

SendNext ==
  \/ Connect
  \/ \E k \in 1..SendSockets : ReconnectTimerFires(k)
  \/ \E k \in 1..SendSockets : SocketOpen(k)
  \/ \E k \in 1..SendSockets, code \in CloseCodes : SocketClose(k, code)
  \/ \E k \in 1..SendSockets : SocketError(k)
  \/ Disconnect
  \/ SendMessage

SendSpec == InitSend /\ [][SendNext]_vars

\* ------------------------------------------- the audio capture hook alone
\* useRealTimeAudio driven by its user, by the results of getUserMedia, by
\* React running the effect that copies the state to the ref, and by the
\* audioprocess events of the processors it created.
InitCaptureSpec ==
  /\ InitState
  /\ workload = [clients |-> 0, frames |-> 0, pauses |-> 0, events |-> 0,
                 sockets |-> 0, sends |-> 0]

CaptureHook ==
  CaptureState(audioState, audioStateRef, hasPermission, streams, streamRef,
               contexts, audioContextRef, startCalls, emitted)

CaptureBecomes(h, call) ==
  /\ audioState' = h.audioState
  /\ audioStateRef' = h.audioStateRef
  /\ hasPermission' = h.hasPermission
  /\ streams' = h.streams
  /\ streamRef' = h.streamRef
  /\ contexts' = h.contexts
  /\ audioContextRef' = h.audioContextRef
  /\ startCalls' = h.startCalls
  /\ emitted' = h.emitted
  /\ captureLog' = call
  /\ UNCHANGED <<serverVars, messagesVars, socketVars, playerVars>>

\* startCapture() called by the user
StartCapture ==
  /\ Len(startCalls) < MaxStarts
  /\ CaptureBecomes(startCapture(CaptureHook), "start")

\* the getUserMedia of requestPermission resolves or rejects
PermissionSettled(i, granted) ==
  /\ i \in 1..Len(startCalls)
  /\ startCalls[i] = "permission"
  /\ CaptureBecomes(permissionSettled(CaptureHook, i, granted), captureLog)

\* the getUserMedia of startCapture resolves or rejects
StreamSettled(i, ok) ==
  /\ i \in 1..Len(startCalls)
  /\ startCalls[i] = "stream"
  /\ CaptureBecomes(streamSettled(CaptureHook, i, ok), captureLog)

\* stopCapture() called by the user
StopCapture ==
  /\ CaptureBecomes(stopCapture(CaptureHook), "stop")

\* React runs the effect of lines 130-132 after a render
SyncAudioStateRef ==
  /\ audioStateRef # audioState
  /\ CaptureBecomes(syncAudioStateRef(CaptureHook), captureLog)

\* an audioprocess event of the processor of context k
AudioProcess(k) ==
  /\ k \in 1..Len(contexts)
  /\ contexts[k] \in {"running", "closing"}
  /\ Len(emitted) < MaxChunks
  /\ CaptureBecomes(onaudioprocess(CaptureHook, k), captureLog)

\* the promise of AudioContext.close() resolves
ContextClosed(k) ==
  /\ k \in 1..Len(contexts)
  /\ contexts[k] = "closing"
  /\ CaptureBecomes([CaptureHook EXCEPT !.contexts[k] = "closed"], captureLog)

CaptureNext ==
  \/ StartCapture
  \/ \E i \in 1..MaxStarts, granted \in BOOLEAN : PermissionSettled(i, granted)
  \/ \E i \in 1..MaxStarts, ok \in BOOLEAN : StreamSettled(i, ok)
  \/ StopCapture
  \/ SyncAudioStateRef
  \/ \E k \in 1..MaxStarts : AudioProcess(k)
  \/ \E k \in 1..MaxStarts : ContextClosed(k)

CaptureSpec == InitCaptureSpec /\ [][CaptureNext]_vars

\* -------------------------------------------- the audio player hook alone
\* useAudioPlayer driven by its user (useVoiceChat's onAudioChunk), by the
\* ended events of its buffer sources and by React's renders.  While the
\* audio context is running an await of initializeAudioContext() lasts a few
\* microtasks, so a call runs to its end before the next event; while it is
\* suspended the calls wait for resume() and are continued in their order
\* once it resolves.
InitPlayerSpec ==
  /\ InitState
  /\ workload = [clients |-> 0, frames |-> 0, pauses |-> 0, events |-> 0,
                 sockets |-> 0, sends |-> 0]

PlayerHook ==
  PlayerState(audioQueueRef, sources, currentSourceRef, isPlayingRef,
              playbackState, renderedPlaybackState, playerContext,
              playerTasks, playerLog)

PlayerBecomes(h) ==
  /\ audioQueueRef' = h.audioQueueRef
  /\ sources' = h.sources
  /\ currentSourceRef' = h.currentSourceRef
  /\ isPlayingRef' = h.isPlayingRef
  /\ playbackState' = h.playbackState
  /\ renderedPlaybackState' = h.renderedPlaybackState
  /\ playerContext' = h.playerContext
  /\ playerTasks' = h.playerTasks
  /\ playerLog' = h.playerLog
  /\ UNCHANGED <<serverVars, messagesVars, socketVars, captureVars>>

\* no call is between an await and its continuation with the context running
BetweenTasks == playerTasks = <<>> \/ playerContext # "running"

\* the base64 payload of an audio frame: empty, or PCM16 samples
AudioData == {EmptyString, "<base64 pcm16>"}

\* queueAudioChunk(data) called by the user
QueueAudioChunk(data, policy) ==
  /\ BetweenTasks
  /\ playerLog.chunks < MaxChunkCalls
  /\ PlayerBecomes(queueAudioChunk(PlayerHook, data, policy))

\* playNewAudio(data) called by the user
PlayNewAudio(data, policy) ==
  /\ BetweenTasks
  /\ playerLog.chunks < MaxChunkCalls
  /\ PlayerBecomes(playNewAudio(PlayerHook, data, policy))

\* stop() called by the user
Stop ==
  /\ BetweenTasks
  /\ PlayerBecomes(stop(PlayerHook))

\* the promise of resume() resolves
ContextResumed ==
  /\ playerContext = "suspended"
  /\ PlayerBecomes([PlayerHook EXCEPT !.playerContext = "running"])

\* the continuation of the oldest waiting call
ResumeTask ==
  /\ playerContext = "running"
  /\ playerTasks # <<>>
  /\ PlayerBecomes(resumeTask(PlayerHook))

\* the ended event of source k: its buffer has been played, or stop() was
\* called on it
SourceEnded(k) ==
  /\ BetweenTasks
  /\ k \in 1..Len(sources)
  /\ sources[k].state \in {"playing", "stopping"}
  /\ PlayerBecomes(onended(PlayerHook, k))

\* React renders: callbacks made from now on see the new playbackState
Render ==
  /\ BetweenTasks
  /\ renderedPlaybackState # playbackState
  /\ PlayerBecomes([PlayerHook EXCEPT !.renderedPlaybackState = playbackState])

PlayerNext ==
  \/ \E data \in AudioData, policy \in {"suspended", "running"} :
       QueueAudioChunk(data, policy)
  \/ \E data \in AudioData, policy \in {"suspended", "running"} :
       PlayNewAudio(data, policy)
  \/ Stop
  \/ ContextResumed
  \/ ResumeTask
  \/ \E k \in 1..MaxChunkCalls : SourceEnded(k)
  \/ Render

PlayerSpec == InitPlayerSpec /\ [][PlayerNext]_vars

\* ------------------------------------- upstream service to conversation hook
\* The way of an upstream event to the conversation hook of the web client:
\* the upstream client's handleServerEvent picks the proxy callback, the
\* callback wraps the event in a frame for the client socket, the client's
\* ws.onmessage hands the payload of an openai_event frame to
\* handleOpenAIEvent.  The user sends texts over a connected socket.
InitEndToEnd ==
  /\ InitState
  /\ workload = [clients |-> 0, frames |-> 0, pauses |-> 0, events |-> 0,
                 sockets |-> 0, sends |-> 0]

\* ws.onmessage of useWebSocket: the event it passes to onOpenAIEvent, if any
onmessage(frame) ==
  IF frame.type = "openai_event" THEN frame.message ELSE NoHookEvent

EndToEndBecomes(st, call, ev) ==
  /\ messages' = st.messages
  /\ currentAIResponseRef' = st.current
  /\ isAIResponding' = st.responding
  /\ hookLog' = [n |-> hookLog.n + 1, call |-> call, ev |-> ev]
  /\ UNCHANGED <<serverVars, socketVars, audioVars>>

\* the user submits a text; both frames are handed to the open socket
UserSendsText(text) ==
  /\ hookLog.n < MaxHookInputs
  /\ EndToEndBecomes(hookSendTextMessage(Hook, text, TRUE, TRUE),
                     "sendTextMessage", HookEvent(Absent, Absent, Absent, text))
  /\ UNCHANGED <<downlink, lastFrame>>

\* the upstream service, asked for a response, sends an event; the server
\* relays it
UpstreamAnswers(ev) ==
  /\ \E k \in 1..Len(messages) :
       messages[k].sender = "user" /\ messages[k].status = "sent"
  /\ Len(downlink) < MaxDownlink
  /\ LET cbs == handleServerEvent(ev.type)
     IN downlink' = downlink \o
          [k \in 1..Len(cbs) |-> ProxyFrame(cbs[k], ev, 1)]
  /\ UNCHANGED <<serverVars, socketVars, audioVars, messages,
                 currentAIResponseRef, isAIResponding, hookLog, lastFrame>>

\* 'message' on the client's socket: the oldest frame on its way
ClientOnMessage ==
  /\ downlink # <<>>
  /\ hookLog.n < MaxHookInputs
  /\ LET frame == Head(downlink)
         ev == onmessage(frame)
     IN /\ lastFrame' = frame
        /\ EndToEndBecomes(IF ev # NoHookEvent THEN handleOpenAIEvent(Hook, ev)
                           ELSE Hook,
                           "onmessage", ev)
  /\ downlink' = Tail(downlink)

EndToEndNext ==
  \/ \E text \in UserTexts : UserSendsText(text)
  \/ \E ev \in HookEvents : UpstreamAnswers(ev)
  \/ ClientOnMessage

EndToEndSpec == InitEndToEnd /\ [][EndToEndNext]_vars

\* =================================================================== claims
SessionId(c) == connectionContexts[c].sessionId

\* the entries of a history that the handling of frame i caused
CausedBy(h, i) == SelectSeq(h, LAMBDA e : e.cause = i)

Welcomes(c) == SelectSeq(outbox[c], LAMBDA e : e.type = "welcome")

\* C1: when connect() rejects during setup, the server sends an error
\* frame and closes the client socket with code 1011, and afterwards
\* neither the session registry nor the openaiServices map holds an entry
\* for the connection's session id.
C1_SetupFailureLeavesNoLeak ==
  \A c \in Conns :
    (pc[c] = "failed" /\ closeCode[c] = CLOSE_INTERNAL_ERROR
       /\ wsState[c] = "closed")
    => /\ \E e \in Range(outbox[c]) :
            e.type = "error" /\ e.message = "Failed to initialize AI service"
       /\ sessions[SessionId(c)] = NoSession
       /\ ~openaiServices[SessionId(c)]

\* C2: a connection whose token fails validation is closed with code 1008,
\* and at no point was a session created or an upstream client constructed
\* for it.
C2_AuthFailureAllocatesNothing ==
  \A c \in Conns :
    authData[c] = "invalid"
    => /\ created[c] = 0
       /\ constructed[c] = 0
       /\ sessions[generateSessionId(c)] = NoSession
       /\ ~openaiServices[generateSessionId(c)]
       /\ connectionContexts[c] = NoContext
       /\ pc[c] \in {"unauthenticated", "rejected"}
       /\ Idle => /\ pc[c] = "rejected"
                  /\ closeCode[c] = CLOSE_POLICY_VIOLATION
                  /\ wsState[c] \in {"closing", "closed"}

C2_Witness ==
  \E c \in Conns :
    /\ token[c] # NoToken
    /\ authData[c] = "invalid"
    /\ pc[c] = "rejected"
    /\ closeCode[c] = CLOSE_POLICY_VIOLATION
    /\ wsState[c] = "closed"

\* C3: the socket handlers are registered and the welcome frame is sent
\* only after connect() has resolved, the welcome frame is sent once, and
\* no client frame causes an upstream send before the link is ready.
C3_State ==
  \A c \in Conns :
    /\ wsHandlers[c] => connectPromise[c] = "resolved"
    /\ Welcomes(c) # <<>> => connectPromise[c] = "resolved"
    /\ Len(Welcomes(c)) <= 1
    /\ (pc[c] = "established" /\ wsState[c] = "open") => Len(Welcomes(c)) = 1
    /\ frames[c] # <<>> => Len(Welcomes(c)) = 1
    /\ \A k \in 1..Len(outbox[c]) :
         outbox[c][k].type = "welcome"
         => \A j \in 1..k : outbox[c][j].cause = 0

C3_Step ==
  \A c \in Conns :
    /\ (upSent'[c] # upSent[c] /\ upSent'[c][Len(upSent'[c])].cause > 0)
       => (connectPromise[c] = "resolved" /\ isConnected[c])
    /\ dropped'[c] # dropped[c]
       => (upSent'[c] = upSent[c] /\ outbox'[c] = outbox[c])

C3_HandlersAndWelcomeAfterReady == []C3_State /\ [][C3_Step]_vars

C3_Witness ==
  \E c \in Conns :
    /\ dropped[c] > 0
    /\ Len(Welcomes(c)) = 1
    /\ \E e \in Range(upSent[c]) : e.cause > 0

\* C4: each connection constructs at most one upstream client, a completed
\* setup has stored exactly one under the session id, and once the
\* disconnect has been handled the map holds no entry for that id.
C4_OneServicePerSession ==
  \A c \in Conns :
    /\ constructed[c] <= 1
    /\ openaiServices[c] => (constructed[c] = 1 /\ created[c] = 1)
    /\ pc[c] = "established"
       => (constructed[c] = 1 /\ (openaiServices[c] \/ disconnected[c]))
    /\ disconnected[c] => ~openaiServices[c]

C4_Witness ==
  \E c \in Conns :
    /\ disconnected[c]
    /\ constructed[c] = 1
    /\ ~openaiServices[c]
    /\ \E d \in Conns : d # c /\ openaiServices[d]

\* C5: once setup has completed, an upstream transport error or close
\* tears the whole client connection down: the client socket is closed and
\* the connection's session and upstream client are removed.
C5_UpstreamFailureTearsDown ==
  \A c \in Conns :
    (pc[c] = "established" /\ upWs[c] = "closed")
    => /\ wsState[c] # "open"
       /\ ~isConnected[c]
       /\ sessions[c] = NoSession
       /\ ~openaiServices[c]

\* C6: for a connection with a session, once the client socket has closed
\* (also while connect() was pending) the upstream client ends up
\* disconnected and removed from the map: here stated for the moment the
\* setup has run to its end and no continuation is left to run.
C6_ClosedClientIsCleanedUp ==
  \A c \in Conns :
    (created[c] > 0 /\ wsState[c] = "closed" /\ pc[c] = "established" /\ Idle)
    => /\ ~openaiServices[c]
       /\ ~isConnected[c]
       /\ upWs[c] \notin {"connecting", "open"}

IsProxyFrame(f) == f.valid /\ f.type = "openai_event" /\ f.hasPayload

\* C7: every openai_event frame with a payload leads to exactly one
\* upstream send that carries the payload with every supplied field
\* unchanged, and these sends keep the order of arrival.
C7_ProxyEventForwardedOnce ==
  \A c \in Conns :
    /\ \A i \in 1..Len(frames[c]) :
         LET f == frames[c][i]
             sent == CausedBy(upSent[c], i)
         IN IsProxyFrame(f)
            => /\ Len(sent) = 1
               /\ sent[1].ev.type = f.payload.type
               /\ sent[1].ev.text = f.payload.text
               /\ sent[1].ev.audio = f.payload.audio
               /\ ~IsFalsy(f.payload.event_id)
                  => sent[1].ev.event_id = f.payload.event_id
    /\ \A j, k \in 1..Len(upSent[c]) :
         (j < k /\ upSent[c][j].cause > 0) => upSent[c][j].cause <= upSent[c][k].cause

SentTypes(c, i) ==
  [k \in 1..Len(CausedBy(upSent[c], i)) |-> CausedBy(upSent[c], i)[k].ev.type]

\* C8 as claimed: one frame causes at most one upstream send, except a
\* text_message frame, which causes exactly two.
C8_AtMostOneSendPerFrame ==
  \A c \in Conns : \A i \in 1..Len(frames[c]) :
    LET f == frames[c][i]
    IN IF f.valid /\ f.type = "text_message"
       THEN Idle => SentTypes(c, i) = <<"conversation.item.create", "response.create">>
       ELSE Len(SentTypes(c, i)) <= 1

FailedToProcess(c, i) ==
  \E e \in Range(CausedBy(outbox[c], i)) :
    e.type = "error" /\ e.message = "Failed to process " \o frames[c][i].type

\* C8 as amended: one frame causes at most one upstream send, except
\* text_message and audio_commit.  A text_message with a text causes
\* conversation.item.create then response.create, an audio_commit causes
\* input_audio_buffer.commit then response.create; either causes no send
\* at all, and a 'Failed to process' error frame, when the upstream link
\* is not connected.  A text_message without text causes no send.
C8_SendsPerFrame ==
  \A c \in Conns : \A i \in 1..Len(frames[c]) :
    LET f == frames[c][i]
        types == SentTypes(c, i)
    IN /\ ~(f.valid /\ f.type \in {"text_message", "audio_commit"})
          => Len(types) <= 1
       /\ Len(types) <= 2
       /\ (Idle /\ f.valid /\ f.type = "text_message")
          => IF f.hasPayload /\ ~IsFalsy(f.payload.text)
             THEN \/ types = <<"conversation.item.create", "response.create">>
                  \/ types = <<>> /\ FailedToProcess(c, i)
             ELSE types = <<>>
       /\ (Idle /\ f.valid /\ f.type = "audio_commit")
          => \/ types = <<"input_audio_buffer.commit", "response.create">>
             \/ types = <<>> /\ FailedToProcess(c, i)

C8_Witness ==
  \E c \in Conns :
    /\ Len(frames[c]) = 2
    /\ frames[c][1].type = "audio_commit"
    /\ frames[c][2].type = "text_message"
    /\ SentTypes(c, 1) = <<"input_audio_buffer.commit", "response.create">>
    /\ SentTypes(c, 2) = <<"conversation.item.create", "response.create">>

\* the step in which the message handler of c receives a frame
Receives(c) == Len(frames'[c]) = Len(frames[c]) + 1

Received(c) == frames'[c][Len(frames'[c])]

\* C9: a frame that is not valid JSON is answered with one error frame
\* 'Invalid message format', causes no upstream send, leaves the socket
\* open and the session in the registry, and the next valid frame is
\* processed as usual.
C9_State ==
  \A c \in Conns : \A i \in 1..Len(frames[c]) :
    ~frames[c][i].valid
    => /\ CausedBy(outbox[c], i) =
            <<ErrorFrame(generateSessionId(c), "Invalid message format", i)>>
       /\ CausedBy(upSent[c], i) = <<>>
       /\ (i < Len(frames[c]) /\ frames[c][i + 1].valid
             /\ frames[c][i + 1].type = "ping")
          => \E e \in Range(CausedBy(outbox[c], i + 1)) : e.type = "pong"

C9_Step ==
  \A c \in Conns :
    (Receives(c) /\ ~Received(c).valid)
    => /\ wsState'[c] = "open"
       /\ wsHandlers'[c]
       /\ sessions' = sessions
       /\ openaiServices' = openaiServices
       /\ micro' = micro

C9_InvalidJsonReported == []C9_State /\ [][C9_Step]_vars

C9_Witness ==
  \E c \in Conns :
    /\ Len(frames[c]) = 2
    /\ ~frames[c][1].valid
    /\ frames[c][2].type = "ping"
    /\ outbox[c][Len(outbox[c])].type = "pong"
    /\ wsState[c] = "open"
    /\ sessions[c] # NoSession

\* C10: a frame of an unknown type is answered with exactly one error
\* frame 'Unknown message type: <type>', causes no upstream send and
\* leaves the connection open and the session as it was.
C10_State ==
  \A c \in Conns : \A i \in 1..Len(frames[c]) :
    (frames[c][i].valid /\ frames[c][i].type \notin KnownTypes)
    => /\ Len(CausedBy(outbox[c], i)) = 1
       /\ CausedBy(outbox[c], i)[1].type = "error"
       /\ CausedBy(outbox[c], i)[1].message =
            "Unknown message type: " \o frames[c][i].type
       /\ CausedBy(upSent[c], i) = <<>>

C10_Step ==
  \A c \in Conns :
    (Receives(c) /\ Received(c).valid /\ Received(c).type \notin KnownTypes)
    => /\ wsState'[c] = "open"
       /\ wsHandlers'[c]
       /\ sessions'[generateSessionId(c)].status =
            sessions[generateSessionId(c)].status
       /\ openaiServices' = openaiServices
       /\ upWs' = upWs
       /\ micro' = micro

C10_UnknownTypeReported == []C10_State /\ [][C10_Step]_vars

C10_Witness ==
  \E c \in Conns :
    /\ frames[c] # <<>>
    /\ frames[c][Len(frames[c])].type = "subscribe"
    /\ outbox[c][Len(outbox[c])].message = "Unknown message type: subscribe"
    /\ wsState[c] = "open"
    /\ sessions[c].status = "active"

\* C11: a ping frame is answered with exactly one pong frame that carries
\* the session id of the connection (the one its welcome frame announced),
\* and handling it sends nothing upstream and leaves the upstream link,
\* the service map and the microtask queue as they were.
C11_State ==
  \A c \in Conns : \A i \in 1..Len(frames[c]) :
    (frames[c][i].valid /\ frames[c][i].type = "ping")
    => /\ Len(CausedBy(outbox[c], i)) = 1
       /\ CausedBy(outbox[c], i)[1].type = "pong"
       /\ CausedBy(outbox[c], i)[1].sessionId = generateSessionId(c)
       /\ \A w \in Range(Welcomes(c)) :
            CausedBy(outbox[c], i)[1].sessionId = w.sessionId
       /\ CausedBy(upSent[c], i) = <<>>

C11_Step ==
  \A c \in Conns :
    (Receives(c) /\ Received(c).valid /\ Received(c).type = "ping")
    => /\ Len(outbox'[c]) = Len(outbox[c]) + 1
       /\ outbox'[c][Len(outbox'[c])].sessionId = SessionId(c)
       /\ upSent' = upSent
       /\ upWs' = upWs
       /\ isConnected' = isConnected
       /\ connectPromise' = connectPromise
       /\ openaiServices' = openaiServices
       /\ micro' = micro

C11_PingAnsweredLocally == []C11_State /\ [][C11_Step]_vars

C11_Witness ==
  \E c \in Conns :
    /\ Len(frames[c]) = 2
    /\ frames[c][1].type = "ping"
    /\ frames[c][2].type = "ping"
    /\ Len(SelectSeq(outbox[c], LAMBDA e : e.type = "pong")) = 2
    /\ isConnected[c]
    /\ Len(upSent[c]) = 1

\* C12: a connection without a token is never rejected for authentication
\* (never closed with code 1008): a session is created for it at once, its
\* context is marked unauthenticated, and the welcome frame sent once the
\* upstream link is ready says authenticated:false and carries the id of
\* that session.
C12_State ==
  \A c \in Conns :
    (pc[c] # "new" /\ token[c] = NoToken)
    => /\ created[c] = 1
       /\ authData[c] = "none"
       /\ closeCode[c] # CLOSE_POLICY_VIOLATION
       /\ pc[c] \notin {"validating", "unauthenticated", "rejected"}
       /\ ~disconnected[c]
          => connectionContexts[c] =
               [sessionId |-> generateSessionId(c), authenticated |-> FALSE]
       /\ pc[c] = "authenticated"
          => sessions[generateSessionId(c)].status = "active"
       /\ \A w \in Range(Welcomes(c)) :
            /\ w.authenticated = FALSE
            /\ w.sessionId = generateSessionId(c)
            /\ connectPromise[c] = "resolved"
       /\ (pc[c] = "established" /\ wsState[c] = "open")
          => Len(Welcomes(c)) = 1

\* the continuation of the setup runs after connect() resolved: with the
\* client socket still open it hands the welcome frame to the socket
C12_Step ==
  \A c \in Conns :
    (token[c] = NoToken /\ pc[c] = "connecting" /\ pc'[c] = "established"
       /\ wsState[c] = "open")
    => /\ Len(outbox'[c]) = Len(outbox[c]) + 1
       /\ outbox'[c][Len(outbox'[c])] =
            ServerFrame("welcome", "Connected to Smriti AI Guidance",
                        generateSessionId(c), FALSE, 0)

C12_NoTokenGetsDemoSession == []C12_State /\ [][C12_Step]_vars

C12_Witness ==
  \E c, d \in Conns :
    /\ token[c] = NoToken /\ pc[c] = "established" /\ wsState[c] = "open"
    /\ Welcomes(c) = <<ServerFrame("welcome", "Connected to Smriti AI Guidance",
                                   generateSessionId(c), FALSE, 0)>>
    /\ sessions[generateSessionId(c)].status = "active"
    /\ token[d] = MIN_TOKEN_LENGTH /\ Len(Welcomes(d)) = 1
    /\ Welcomes(d)[1].authenticated

\* the payloads of a sequence of records, in order
Field(h, P(_), F(_)) ==
  LET sel == SelectSeq(h, P) IN [k \in 1..Len(sel) |-> F(sel[k])]

\* C13: each upstream event is handed to exactly one callback, an error
\* event to the error callback and any other to the event callback; the
\* callback passes exactly one frame to the client socket, an openai_event
\* frame for the event callback, whose payload is the event as received;
\* the openai_event frames the client gets are the events delivered to
\* the event callback while its socket was open, in the order received.
C13_State ==
  \A c \in Conns :
    /\ \A k \in 1..Len(upRecv[c]) :
         LET r == upRecv[c][k]
         IN /\ Len(r.to) = 1
            /\ r.to[1] = (IF r.ev = "error" THEN "onOpenAIError"
                          ELSE "onOpenAIEvent")
            /\ Len(r.sent) = 1
            /\ r.sent[1].type = (IF r.ev = "error" THEN "openai_error"
                                 ELSE "openai_event")
            /\ r.sent[1].message = r.ev
            /\ r.sent[1].sessionId = generateSessionId(c)
    /\ Field(outbox[c], LAMBDA e : e.type = "openai_event",
             LAMBDA e : e.message)
       = Field(upRecv[c], LAMBDA r : r.delivered /\ r.ev # "error",
               LAMBDA r : r.ev)

C13_Step ==
  \A c \in Conns :
    Len(upRecv'[c]) = Len(upRecv[c]) + 1
    => LET r == upRecv'[c][Len(upRecv'[c])]
       IN /\ r.delivered = (wsState[c] = "open")
          /\ outbox'[c] = IF r.delivered THEN outbox[c] \o r.sent
                          ELSE outbox[c]
          /\ upSent' = upSent

C13_UpstreamEventsRelayedOnce == []C13_State /\ [][C13_Step]_vars

C13_Witness ==
  \E c \in Conns :
    /\ Len(upRecv[c]) = 2
    /\ upRecv[c][1].ev = "error" /\ upRecv[c][1].delivered
    /\ upRecv[c][2].ev = "response.done" /\ upRecv[c][2].delivered
    /\ \E j, k \in 1..Len(outbox[c]) :
         /\ j < k
         /\ outbox[c][j].type = "openai_error"
         /\ outbox[c][k].type = "openai_event"
         /\ outbox[c][k].message = "response.done"

\* the upstream link is ready: its socket is open and configured
LinkReady(c) == upWs[c] = "open" /\ isConnected[c]

\* C14: sendEvent, here called by the router for an openai_event frame,
\* throws (the caller's catch block runs) and sends nothing while the
\* upstream link is not ready; while it is ready it sends exactly one
\* event, with the caller's event id if there is one and a generated id
\* otherwise.
C14_Step ==
  \A c \in Conns :
    (Receives(c) /\ IsProxyFrame(Received(c)))
    => LET i == Len(frames'[c])
           ev == Received(c).payload
       IN IF LinkReady(c)
          THEN /\ upSent'[c] = Append(upSent[c],
                     [cause |-> i,
                      ev |-> [ev EXCEPT !.event_id =
                                IF IsFalsy(ev.event_id) THEN GeneratedId
                                ELSE ev.event_id]])
               /\ micro' = micro
          ELSE /\ upSent'[c] = upSent[c]
               /\ micro' = Append(micro, Microtask("messageCatch", c, i))

C14_SendEventGuardsLink == [][C14_Step]_vars

HasText(f) ==
  f.valid /\ f.type = "text_message" /\ f.hasPayload /\ ~IsFalsy(f.payload.text)

\* C15: sendTextMessage(text), called for a text_message frame, sends a
\* conversation.item.create event carrying the text and then a
\* response.create event, in that order; when the first send fails the
\* second is never sent.
C15_State ==
  \A c \in Conns : \A i \in 1..Len(frames[c]) :
    HasText(frames[c][i])
    => LET sent == CausedBy(upSent[c], i)
       IN /\ SentTypes(c, i) \in
               {<<>>, <<"conversation.item.create">>,
                <<"conversation.item.create", "response.create">>}
          /\ sent # <<>> => sent[1].ev.text = frames[c][i].payload.text
          /\ Len(sent) = 1
             => \E m \in Range(micro) : m = Microtask("createResponse", c, i)
          /\ Idle => Len(sent) \in {0, 2}

C15_Step ==
  \A c \in Conns :
    /\ (Receives(c) /\ HasText(Received(c)) /\ ~CanSend(c))
       => /\ upSent'[c] = upSent[c]
          /\ \A m \in Range(micro') : m.k # "createResponse"
    /\ (Receives(c) /\ HasText(Received(c)) /\ CanSend(c))
       => upSent'[c] = Append(upSent[c],
            Sent(Len(frames'[c]), ItemCreateEvent(Received(c).payload.text)))

C15_TextMessageTwoSteps == []C15_State /\ [][C15_Step]_vars

C15_Witness ==
  \E c \in Conns :
    /\ Len(frames[c]) = 2
    /\ HasText(frames[c][1]) /\ HasText(frames[c][2])
    /\ Field(upSent[c], LAMBDA e : e.cause > 0, LAMBDA e : e.ev.type) =
         <<"conversation.item.create", "conversation.item.create",
           "response.create", "response.create">>
    /\ Field(upSent[c], LAMBDA e : e.cause > 0, LAMBDA e : e.cause) =
         <<1, 2, 1, 2>>

\* C16: connect() has resolved only after the upstream socket opened and
\* the session.update event was sent; once it has rejected, the upstream
\* link is not connected, never becomes connected, and no upstream event
\* reaches the client.
C16_ConnectAllOrNothing ==
  \A c \in Conns :
    /\ connectPromise[c] = "resolved"
       => /\ upSent[c] # <<>>
          /\ upSent[c][1].ev.type = "session.update"
    /\ connectPromise[c] = "rejected"
       => /\ ~isConnected[c]
          /\ upWs[c] # "open"
          /\ \A k \in 1..Len(upRecv[c]) : ~upRecv[c][k].delivered

\* C17: getSession never returns a session whose inactivity exceeds the
\* timeout: for such a session it returns null, the session's status is
\* set to ended and its entry is removed; for an absent id it returns null
\* and changes nothing; any other session is returned as it is.
Inactivity(g) == g.at - g.before.lastActivity

C17_State ==
  /\ got.result # NoSession
     => /\ got.result = got.before
        /\ got.result.status = "active"
        /\ Inactivity(got) <= sessionTimeout
  /\ (got.before # NoSession /\ Inactivity(got) > sessionTimeout)
     => /\ got.result = NoSession
        /\ got.object.status = "ended"
  /\ (got.before # NoSession /\ Inactivity(got) <= sessionTimeout)
     => got.result = got.before
  /\ got.before = NoSession => got.result = NoSession

C17_Step ==
  got' # got
  => /\ got'.before = sessions[got'.sid]
     /\ got'.at = now
     /\ IF got'.before # NoSession /\ (now - got'.before.lastActivity) > sessionTimeout
        THEN sessions' = [sessions EXCEPT ![got'.sid] = NoSession]
        ELSE sessions' = sessions

C17_GetSessionHidesExpired == []C17_State /\ [][C17_Step]_vars

C17_Witness ==
  /\ got.before.status = "active"
  /\ Inactivity(got) = sessionTimeout + 1
  /\ got.result = NoSession
  /\ got.object.status = "ended"
  /\ sessions[got.sid] = NoSession
  /\ \E sid \in Conns :
       /\ sessions[sid] # NoSession
       /\ now - sessions[sid].lastActivity = sessionTimeout

Rank(status) ==
  CASE status = "sending" -> 1 [] status = "sent" -> 2
    [] status = "receiving" -> 3 [] status = "completed" -> 4
    [] OTHER -> 5

\* a status may be given again, may move forward along
\* sending, sent, receiving, completed, or become error unless terminal
AllowedStatusChange(a, b) ==
  \/ a = b
  \/ a \notin {"completed", "error"} /\ b = "error"
  \/ a \notin {"completed", "error"} /\ b # "error" /\ Rank(a) < Rank(b)

\* C18: the statuses a conversation message is given only move forward
\* along sending, sent, receiving, completed, or to error from a status
\* that is not terminal; a message that was completed or error never gets
\* another status.
C18_StatusOnlyForward ==
  \A i \in 1..Len(messages) :
    \A k \in 1..(Len(messages[i].trail) - 1) :
      AllowedStatusChange(messages[i].trail[k], messages[i].trail[k + 1])

\* C19: when response.done arrives while the message being streamed has
\* status receiving, that message becomes completed and the AI-responding
\* flag false; from then on, until an assistant output item is added, a
\* delta event changes no message.
C19_State ==
  currentAIResponseRef.id # 0
  => /\ currentAIResponseRef.id \in 1..Len(messages)
     /\ messages[currentAIResponseRef.id].sender = "ai"

C19_Step ==
  LET ev == hookLog'.ev
      handled == hookLog'.n = hookLog.n + 1 /\ hookLog'.call = "handleOpenAIEvent"
      id == currentAIResponseRef.id
  IN /\ (handled /\ ev.type = "response.done" /\ id # 0
           /\ messages[id].status = "receiving")
        => /\ messages'[id].status = "completed"
           /\ messages'[id].content = messages[id].content
           /\ \A k \in 1..Len(messages) : k # id => messages'[k] = messages[k]
           /\ Len(messages') = Len(messages)
           /\ isAIResponding' = FALSE
           /\ currentAIResponseRef' = NoResponse
     /\ (handled /\ ev.type = "response.done") => isAIResponding' = FALSE
     /\ (handled /\ IsDelta(ev) /\ id = 0) => messages' = messages
     /\ (handled /\ id = 0 /\ currentAIResponseRef'.id # 0)
        => (ev.type = "response.output_item.added" /\ ev.role = "assistant")

C19_ResponseDoneCompletes == []C19_State /\ [][C19_Step]_vars

C19_Witness ==
  /\ hookLog.call = "handleOpenAIEvent"
  /\ hookLog.ev = HookEvent("response.text.delta", Absent, "x", Absent)
  /\ currentAIResponseRef = NoResponse
  /\ ~isAIResponding
  /\ \E i \in 1..Len(messages) :
       /\ messages[i].trail = <<"receiving", "receiving", "completed">>
       /\ messages[i].content = "x"

\* the delays of reconnect attempts 1 to 5, in ms
ExpectedDelay == <<2000, 4000, 8000, 16000, 30000>>

\* C20: the delay scheduled for reconnect attempt k (k = 1..5) is
\* min(2000 * 2^(k-1), 30000) ms; the attempt counter goes up by one with
\* every reconnect that is scheduled, changes at no other time except to
\* become 0, and is 0 right after a socket has opened.
C20_State ==
  /\ reconnectAttemptsRef \in 0..RECONNECT_ATTEMPTS
  /\ \A k \in 1..Len(timeouts) :
       /\ timeouts[k].attempt \in 1..RECONNECT_ATTEMPTS
       /\ timeouts[k].delay = ExpectedDelay[timeouts[k].attempt]

C20_Step ==
  LET scheduled == Len(timeouts') = Len(timeouts) + 1
      opened == \E k \in 1..Len(sockets) :
                  sockets[k] = "connecting" /\ sockets'[k] = "open"
  IN /\ Len(timeouts') \in {Len(timeouts), Len(timeouts) + 1}
     /\ scheduled
        => /\ reconnectAttemptsRef' = reconnectAttemptsRef + 1
           /\ timeouts'[Len(timeouts')].attempt = reconnectAttemptsRef'
           /\ timeouts'[Len(timeouts')].state = "pending"
     /\ opened => reconnectAttemptsRef' = 0
     /\ (~scheduled /\ ~opened) => reconnectAttemptsRef' = reconnectAttemptsRef

C20_BackoffAndReset == []C20_State /\ [][C20_Step]_vars

C20_Witness ==
  /\ Len(timeouts) = RECONNECT_ATTEMPTS
  /\ \A k \in 1..RECONNECT_ATTEMPTS :
       timeouts[k].attempt = k /\ timeouts[k].delay = ExpectedDelay[k]
  /\ reconnectAttemptsRef = 0
  /\ \E k \in 1..Len(sockets) : sockets[k] = "open"

\* the codes the contract calls permanent: policy violation, unsupported
\* data, no status
ClaimedPermanentCodes ==
  {CLOSE_POLICY_VIOLATION, CLOSE_UNSUPPORTED_DATA, CLOSE_NO_STATUS}

Pending(T) == {t \in 1..Len(T) : T[t].state = "pending"}

\* C21: whenever a socket of the hook can still close, its close event
\* with a permanent code (policy violation, unsupported data, no status)
\* schedules no reconnect: the handler leaves the hook disconnected, with
\* the timers as they were and none of them pending.
C21_PermanentCloseNoReconnect ==
  \A k \in 1..Len(sockets), code \in ClaimedPermanentCodes :
    sockets[k] # "closed"
    => LET h == onclose(SocketHook, k, code)
       IN /\ h.timeouts = timeouts
          /\ h.connectionStatus = "disconnected"
          /\ Pending(h.timeouts) = {}

\* C22: no more than RECONNECT_ATTEMPTS reconnects are scheduled between
\* two opens; a close event that arrives with the attempt counter at the
\* maximum schedules nothing and leaves the status disconnected and the
\* error 'Connection failed after multiple attempts'.
C22_State ==
  /\ sinceOpen <= RECONNECT_ATTEMPTS
  /\ reconnectAttemptsRef <= RECONNECT_ATTEMPTS

C22_Step ==
  LET closes == \E k \in 1..Len(sockets) :
                  sockets[k] # "closed" /\ sockets'[k] = "closed"
  IN (closes /\ reconnectAttemptsRef = RECONNECT_ATTEMPTS)
     => /\ timeouts' = timeouts
        /\ connectionStatus' = "disconnected"
        /\ error' = ERR_ATTEMPTS

C22_RetryBudget == []C22_State /\ [][C22_Step]_vars

C22_Witness ==
  /\ sinceOpen = RECONNECT_ATTEMPTS
  /\ Len(timeouts) = RECONNECT_ATTEMPTS
  /\ \A t \in 1..Len(timeouts) : timeouts[t].state = "fired"
  /\ Len(sockets) = RECONNECT_ATTEMPTS + 1
  /\ \A k \in 1..Len(sockets) : sockets[k] = "closed"
  /\ connectionStatus = "disconnected"
  /\ error = ERR_ATTEMPTS

Live(S) == {k \in 1..Len(S) : S[k] \in {"connecting", "open"}}

\* C23: disconnect() closes the hook's socket with code 1000 and leaves no
\* reconnect timer pending; from then on, until connect() is called, no
\* reconnect is scheduled and no reconnect timer fires, whatever close
\* events are delivered.
C23_State ==
  LET d == disconnect(SocketHook)
      c == disconnectCloses(SocketHook)
  IN /\ Live(d.sockets) = {}
     /\ Live(sockets) # {} => Live(sockets) = {c.socket} /\ c.code = CLOSE_NORMAL
     /\ Pending(d.timeouts) = {}

C23_Step ==
  isManualDisconnectRef
  => /\ Len(timeouts') = Len(timeouts)
     /\ \A t \in 1..Len(timeouts) : timeouts'[t].state # "fired"
                                    \/ timeouts[t].state = "fired"

C23_DisconnectStopsReconnect == []C23_State /\ [][C23_Step]_vars

\* C24: disconnect() called twice in a row leaves what one call leaves, on
\* the socket hook and on the upstream client: no socket, not connected,
\* no pending timer, no upstream session id; the second call closes
\* nothing.
C24_DisconnectIdempotent ==
  LET d1 == disconnect(SocketHook)
      d2 == disconnect(d1)
  IN /\ d2 = d1
     /\ disconnectCloses(d1).socket = 0
     /\ d1.wsRef = 0
     /\ d1.connectionStatus = "disconnected"
     /\ Pending(d1.timeouts) = {}
     /\ \A s \in ServiceStates :
          LET s1 == serviceDisconnect(s)
          IN /\ serviceDisconnect(s1) = s1
             /\ ~serviceDisconnectCloses(s1)
             /\ s1.ws = "null"
             /\ ~s1.isConnected
             /\ s1.sessionId = NoUpstreamId

\* the socket of the hook: the one the last `new WebSocket` created
TheSocket == Len(sockets)

IsSend == sendLog'.n = sendLog.n + 1

\* C25: sendMessage called while the hook's socket is not open returns
\* false, sets an error and hands nothing to any socket, then or later
\* (frames reach a socket only in the sendMessage call that returns true);
\* called while the socket is open it hands the frame to that socket once
\* and returns true.
C25_State ==
  \A i, j \in 1..Len(wsSent) : wsSent[i].frame = wsSent[j].frame => i = j

C25_Step ==
  IF IsSend
  THEN IF TheSocket # 0 /\ sockets[TheSocket] = "open"
       THEN /\ sendLog'.result = TRUE
            /\ wsSent' = Append(wsSent, [socket |-> TheSocket,
                                         frame |-> sendLog'.n])
       ELSE /\ sendLog'.result = FALSE
            /\ error' \in {ERR_ESTABLISHING, ERR_NOT_CONNECTED}
            /\ wsSent' = wsSent
  ELSE wsSent' = wsSent

C25_SendOnlyWhenOpen == []C25_State /\ [][C25_Step]_vars

\* the state machine of the client connection
ContractStatuses == {"disconnected", "connecting", "connected", "reconnecting"}

ContractTransitions ==
  {<<"disconnected", "connecting">>, <<"connecting", "connected">>,
   <<"connected", "reconnecting">>, <<"reconnecting", "connecting">>,
   <<"connected", "disconnected">>}

\* C26: the connection status takes only the values disconnected,
\* connecting, connected and reconnecting, and changes only along
\* disconnected -> connecting -> connected, connected -> reconnecting ->
\* connecting and connected -> disconnected.
C26_State == connectionStatus \in ContractStatuses

C26_Step ==
  connectionStatus' # connectionStatus
  => <<connectionStatus, connectionStatus'>> \in ContractTransitions

C26_StatusMachine == []C26_State /\ [][C26_Step]_vars


\* C27: every audio chunk passed to onAudioChunk is passed while the capture
\* state is capturing; an audioprocess event that fires after the state has
\* left capturing emits nothing.
C27_ChunksOnlyWhileCapturing ==
  \A i \in 1..Len(emitted) : emitted[i].state = "capturing"


\* every startCapture call has run to its end
CaptureSettled == \A i \in 1..Len(startCalls) : startCalls[i] = "done"

\* the hook holds a microphone track or an audio context
HoldsResources(h) ==
  \/ \E i \in 1..Len(h.streams) : h.streams[i] = "live"
  \/ \E k \in 1..Len(h.contexts) : h.contexts[k] = "running"
  \/ h.streamRef # 0
  \/ h.audioContextRef # 0

\* C28: once stopCapture() was the user's last call, also when it came while
\* a startCapture() was waiting for the permission prompt or for the
\* microphone stream, the pipeline ends in idle with no microphone track and
\* no audio context (a start that the browser refused, which ends in error
\* with nothing held, is not counted against the claim); and a second
\* stopCapture() changes nothing.
C28_StopReleasesEverything ==
  /\ (captureLog = "stop" /\ CaptureSettled)
     => /\ audioState \in {"idle", "error"}
        /\ ~HoldsResources(CaptureHook)
  /\ stopCapture(stopCapture(CaptureHook)) = stopCapture(CaptureHook)


\* C29: once playNewAudio(chunk) has been called, no buffer that came before
\* its chunk is playing: the playback of that moment was stopped, the queue
\* was emptied, and only the new chunk and the chunks after it are played.
C29_InterruptionDropsEarlierAudio ==
  \A k \in 1..Len(sources) :
    sources[k].state = "playing" => sources[k].buffer >= playerLog.lastNew


\* no call of the player is waiting at an await
PlayerSettled == playerTasks = <<>> /\ playerContext # "suspended"

SomePlaying == \E k \in 1..Len(sources) : sources[k].state = "playing"

\* C30: the chunks given to the player are played in the order they were
\* queued, each once; with auto-play a chunk queued while nothing is playing
\* starts playback without a further call, so no buffer waits in the queue
\* while nothing plays; and when the last queued buffer has finished the
\* player is idle.
C30_QueuePlaysInOrder ==
  /\ \A i, j \in 1..Len(sources) :
       i < j => sources[i].buffer < sources[j].buffer
  /\ (PlayerSettled /\ audioQueueRef # <<>>) => SomePlaying
  /\ (PlayerSettled /\ audioQueueRef = <<>> /\ ~SomePlaying)
     => playbackState = "idle"


\* C31: at most one reconnect timer is pending and at most one socket is
\* live (connecting or open) at any time; when a timer is scheduled every
\* earlier timer has been cleared or has fired, also when connect() or
\* disconnect() is called with the close event of an earlier socket still
\* to come.
C31_State ==
  /\ Cardinality(Pending(timeouts)) <= 1
  /\ Cardinality(Live(sockets)) <= 1

C31_Step ==
  Len(timeouts') > Len(timeouts)
  => \A t \in 1..Len(timeouts) : timeouts'[t].state # "pending"

C31_OneTimerOneSocket == []C31_State /\ [][C31_Step]_vars


\* what the registry holds after a path that may remove session sid: the
\* sweep, getSession(sid), endSession(sid)
RemovalPaths(S, sid, t) ==
  {cleanupExpiredSessions(S, t), getSession(S, sid, t).sessions,
   endSession(S, sid)}

\* C32: the sweep removes every session whose inactivity exceeds the
\* timeout and no other session; a second sweep right after it changes
\* nothing; and endSession of a session that the sweep, getSession or
\* endSession has already removed changes nothing, for that session and
\* for every other.
C32_SweepRemovesExactlyExpired ==
  LET swept == cleanupExpiredSessions(sessions, now)
  IN /\ \A sid \in DOMAIN sessions :
          swept[sid] =
            IF /\ sessions[sid] # NoSession
               /\ now - sessions[sid].lastActivity > sessionTimeout
            THEN NoSession ELSE sessions[sid]
     /\ cleanupExpiredSessions(swept, now) = swept
     /\ \A sid \in DOMAIN sessions :
          \A after \in RemovalPaths(sessions, sid, now) :
            after[sid] = NoSession => endSession(after, sid) = after

C32_Witness ==
  \E a, b \in DOMAIN sessions :
    /\ sessions[a] # NoSession
    /\ sessions[b] # NoSession
    /\ now - sessions[a].lastActivity = sessionTimeout + 1
    /\ now - sessions[b].lastActivity = sessionTimeout
    /\ cleanupExpiredSessions(sessions, now)[a] = NoSession
    /\ cleanupExpiredSessions(sessions, now)[b] = sessions[b]


\* C33: the error frame 'Invalid message format' is sent only for a frame
\* that is not valid JSON; an openai_event frame with a payload never
\* causes it, whatever the state of the upstream link.
C33_InvalidFormatOnlyForBadJson ==
  \A c \in Conns : \A i \in 1..Len(frames[c]) :
    (\E e \in Range(CausedBy(outbox[c], i)) :
        e.type = "error" /\ e.message = "Invalid message format")
    => ~frames[c][i].valid


\* C34: at most one buffer source of the player is playing at any time,
\* whatever the order of the queueAudioChunk, playNewAudio and stop calls
\* and of the ended events.
C34_OneSourcePlaying ==
  Cardinality({k \in 1..Len(sources) : sources[k].state = "playing"}) <= 1


\* C35: when the upstream service answers with an error event, the error
\* reaches the conversation hook of the client: once the client's socket
\* has delivered the frame that relays it, the AI-responding flag is false
\* and no message is left in status receiving.
C35_UpstreamErrorClearsResponding ==
  (hookLog.call = "onmessage" /\ lastFrame.message.type = "error")
  => /\ ~isAIResponding
     /\ \A k \in 1..Len(messages) : messages[k].status # "receiving"


\* C36: against a server that closes every connection with a non-permanent
\* code, before or shortly after the open, the client's reconnection ends
\* with its budget: once connection number RECONNECT_ATTEMPTS + 1 has been
\* closed no reconnect is pending, the status is disconnected and the
\* error is 'Connection failed after multiple attempts'.
C36_ReconnectionTerminates ==
  (/\ Len(sockets) = RECONNECT_ATTEMPTS + 1
   /\ \A k \in 1..Len(sockets) : sockets[k] = "closed")
  => /\ Pending(timeouts) = {}
     /\ connectionStatus = "disconnected"
     /\ error = ERR_ATTEMPTS


\* C37: whenever the status is connected the hook's socket reference is an
\* open socket and sendMessage succeeds; the close event of a socket that
\* is no longer the hook's socket leaves the reference and the status as
\* they are.
C37_State ==
  connectionStatus = "connected"
  => /\ wsRef # 0
     /\ sockets[wsRef] = "open"
     /\ sendMessageReturns(SocketHook)

C37_Step ==
  \A k \in 1..Len(sockets) :
    (sockets[k] # "closed" /\ sockets'[k] = "closed" /\ wsRef # k
       /\ Len(sockets') = Len(sockets))
    => /\ wsRef' = wsRef
       /\ connectionStatus' = connectionStatus

C37_ConnectedMeansOpen == []C37_State /\ [][C37_Step]_vars


\* C38: the two upstream events one text_message frame produces
\* (conversation.item.create, then response.create) are consecutive on the
\* upstream link: no event caused by a later frame of the same connection
\* lies between them.
C38_TextMessagePairConsecutive ==
  \A c \in Conns : \A p, q \in 1..Len(upSent[c]) :
    (/\ p < q
     /\ upSent[c][p].cause > 0
     /\ upSent[c][p].cause = upSent[c][q].cause
     /\ HasText(frames[c][upSent[c][p].cause])
     /\ upSent[c][p].ev.type = "conversation.item.create"
     /\ upSent[c][q].ev.type = "response.create")
    => \A k \in (p + 1)..(q - 1) :
         upSent[c][k].cause <= upSent[c][p].cause
\* C39: every client connection that has received its welcome frame and has
\* not closed has its session in the registry with status active, and every
\* key of the openaiServices map is the id of a session the registry holds,
\* also after the inactivity timeout has passed and the sweep has run.
C39_WelcomedHasActiveSession ==
  /\ \A c \in Conns :
       (Welcomes(c) # <<>> /\ wsState[c] = "open")
       => sessions[SessionId(c)].status = "active"
  /\ \A sid \in DOMAIN openaiServices :
       openaiServices[sid] => sessions[sid] # NoSession

====
